---- MODULE Spec2Model ----
(***************************************************************************)
(* Archodex backend: the report ingestion handler (src/src/report.rs), the *)
(* statements it compiles, the tenant graph those statements act on, the   *)
(* first-real-error helper (src/src/db.rs), the report key codec and       *)
(* lifecycle (src/src/report_key.rs, report_keys.rs), the per-tenant       *)
(* connection cache (src/src/db.rs) and the query handler (query.rs).      *)
(*                                                                         *)
(* Encodings.  Option<T> is a sequence of length 0 (None) or 1 (Some(x)).  *)
(* A ResourceId segment {type, id} is the pair <<type, id>>, as            *)
(* From<ResourceId> builds it; a surrealdb Array of segments is a          *)
(* sequence of segments.  A JSON attribute map is a set of <<key, value>>  *)
(* pairs with at most one pair per key.  Timestamps are naturals.          *)
(***************************************************************************)
EXTENDS Naturals, Sequences, FiniteSets

VARIABLES
    \* ingestion: the tenant graph, the graph before the last request, the
    \* last request, the query compiled for it, its per-statement results
    \* and the handler's response
    graph, prevGraph, request, statements, results, response,
    \* report key codec: the report key value presented, what it was
    \* minted from, what was altered in it since, the endpoint configured
    \* at the deployment that validated it and the outcome of
    \* validate_value
    presented, minted, tamper, deployment, validated,
    \* report keys: the tenant's report_key table, the store's clock and
    \* the reply of the last report key handler
    report_key, now, reply,
    \* tenant databases: the cache of handles by AWS account id, the one
    \* handle of lib's db, the namespace each session works in, the
    \* requests in flight and the namespaces their statements ran in
    dbs_by_aws_account_id, DB, session, task, executed,
    \* the request boundary: the body of the last request posted
    body,
    \* queries: the type of the last query, the parameters its statements
    \* left and the JSON object answered (no members when it failed)
    queried, fetched, answer,
    \* errors: the error a handler last failed with and the response the
    \* client was sent for it
    failure, sent,
    \* the connection cache: who holds the lock of the cache and the
    \* connections established so far
    lock, established,
    \* account creation: the accounts database, the DynamoDB tables of
    \* the accounts and the create_account requests in flight
    account_store, tables, creating

ingestVars == <<graph, prevGraph, request, statements, results, response>>

codecVars == <<presented, minted, tamper, deployment, validated>>

keyVars == <<report_key, now, reply>>

tenancyVars == <<dbs_by_aws_account_id, DB, session, task, executed>>

boundaryVars == <<body>>

queryVars == <<queried, fetched, answer>>

errorVars == <<failure, sent>>

\* The parts of the program that stand apart from the ones above.
cacheVars == <<lock, established>>

accountVars == <<account_store, tables, creating>>

laterVars == <<errorVars, cacheVars, accountVars>>

otherVars == <<tenancyVars, boundaryVars, queryVars, laterVars>>

vars == <<ingestVars, codecVars, keyVars, otherVars>>

\* What a step of one part of the program leaves alone.
nonIngestVars == <<codecVars, keyVars, otherVars>>

nonCodecVars == <<ingestVars, keyVars, otherVars>>

nonKeyVars == <<ingestVars, otherVars>>

nonTenancyVars ==
    <<ingestVars, codecVars, keyVars, boundaryVars, queryVars, laterVars>>

nonBoundaryVars == <<codecVars, keyVars, tenancyVars, queryVars, laterVars>>

\* ---------------------------------------------------------------- bounds

\* The latest instant an agent reports (the earliest is 1).
MaxTime == 2

\* Largest number of nodes in a submitted forest (compile specification).
MaxNodes == 3

\* Longest principals / resources / events list of an event batch.
MaxListLen == 2

\* Longest per-statement result list handed to check_first_real_error.
MaxResults == 3

\* ------------------------------------------------------------ option type

None == <<>>

Some(x) == <<x>>

IsSome(o) == Len(o) = 1

Unwrap(o) == o[1]

\* ------------------------------------------------------------- sequences

RECURSIVE Flatten(_)
\* Concatenation of a sequence of sequences, in order.
Flatten(ss) ==
    IF ss = <<>> THEN <<>> ELSE Head(ss) \o Flatten(Tail(ss))

\* ------------------------------------------------------------ statements

\* BeginStatement::default()
BeginStatement == [kind |-> "begin", readonly |-> FALSE]

\* CommitStatement::default()
CommitStatement == [kind |-> "commit"]

\* Variant: the clause assigns the wrong column.
ResourceUpsertUpdateFirstSeen(resource_tree_node) ==
    <<"first_seen_at", resource_tree_node.last_seen_at>>

\* The ON DUPLICATE KEY UPDATE clause of the resource upsert.
ResourceUpsertUpdate(resource_tree_node) ==
    <<"last_seen_at", resource_tree_node.last_seen_at>>

\* INSERT INTO resource (id, first_seen_at, last_seen_at) VALUES (..)
\*   ON DUPLICATE KEY UPDATE last_seen_at = <last_seen_at> RETURN NONE
ResourceUpsert(prefix, resource_tree_node) ==
    [kind     |-> "insert",
     relation |-> FALSE,
     into     |-> "resource",
     data     |-> [id            |-> prefix,
                   first_seen_at |-> resource_tree_node.first_seen_at,
                   last_seen_at  |-> resource_tree_node.last_seen_at],
     update   |-> ResourceUpsertUpdate(resource_tree_node)]

\* UPDATE resource:<id> MERGE { attributes: <attributes> } RETURN NONE
ResourceAttributesMerge(prefix, attributes) ==
    [kind |-> "merge",
     what |-> prefix,
     data |-> [attributes |-> attributes]]

\* Variant: without the is_empty test.
HasAttributesToMergeIfPresent(resource_tree_node) ==
    IsSome(resource_tree_node.attributes)

\* if let Some(attributes) = .. { if !attributes.is_empty() { .. } }
HasAttributesToMerge(resource_tree_node) ==
    /\ IsSome(resource_tree_node.attributes)
    /\ Unwrap(resource_tree_node.attributes) # {}

\* Variant: the clause assigns the wrong column.
ContainsUpsertUpdateFirstSeen(resource_tree_node) ==
    <<"first_seen_at", resource_tree_node.last_seen_at>>

\* The ON DUPLICATE KEY UPDATE clause of the containment-edge upsert.
ContainsUpsertUpdate(resource_tree_node) ==
    <<"last_seen_at", resource_tree_node.last_seen_at>>

\* INSERT RELATION INTO contains (in, out, first_seen_at, last_seen_at) ..
ContainsUpsert(in, out, resource_tree_node) ==
    [kind     |-> "insert",
     relation |-> TRUE,
     into     |-> "contains",
     data     |-> [in            |-> in,
                   out           |-> out,
                   first_seen_at |-> resource_tree_node.first_seen_at,
                   last_seen_at  |-> resource_tree_node.last_seen_at],
     update   |-> ContainsUpsertUpdate(resource_tree_node)]

\* Variant: the clause assigns the wrong column.
EventUpsertUpdateFirstSeen(event) ==
    <<"first_seen_at", event.last_seen_at>>

\* The ON DUPLICATE KEY UPDATE clause of the event-edge upsert.
EventUpsertUpdate(event) ==
    <<"last_seen_at", event.last_seen_at>>

\* INSERT RELATION INTO event (in, out, type, first_seen_at, last_seen_at) ..
EventUpsert(principal_id, resource_id, event) ==
    [kind     |-> "insert",
     relation |-> TRUE,
     into     |-> "event",
     data     |-> [in            |-> principal_id,
                   out           |-> resource_id,
                   type          |-> event.type,
                   first_seen_at |-> event.first_seen_at,
                   last_seen_at  |-> event.last_seen_at],
     update   |-> EventUpsertUpdate(event)]

\* ------------------------------------------------------- upsert compiler

\* Variant: the segment is not popped.
PopKeepsSegment(prefix) == prefix

\* prefix.pop()
Pop(prefix) ==
    IF prefix = <<>> THEN <<>> ELSE SubSeq(prefix, 1, Len(prefix) - 1)

\* The array the node's segment is pushed onto: a fresh one for a
\* globally unique node, the caller's otherwise.
PushTarget(prefix, resource_tree_node) ==
    IF resource_tree_node.globally_unique = Some(TRUE) THEN <<>> ELSE prefix

RECURSIVE upsert_resource_tree_node(_, _, _)
RECURSIVE upsert_children(_, _, _)

\* The loop over resource_tree_node.contains; every call borrows the same
\* prefix.  The result is the query and the prefix as the loop leaves them.
upsert_children(query, prefix, children) ==
    IF children = <<>>
    THEN [query |-> query, prefix |-> prefix]
    ELSE LET r == upsert_resource_tree_node(query, prefix, Head(children))
         IN  upsert_children(r.query, r.prefix, Tail(children))

\* The result is the query returned and the caller's prefix as the call
\* leaves it (untouched when the node pushed onto its own fresh array).
upsert_resource_tree_node(query, prefix, resource_tree_node) ==
    LET own      == resource_tree_node.globally_unique = Some(TRUE)
        pushed   == Append(PushTarget(prefix, resource_tree_node),
                           resource_tree_node.id)
        q1       == Append(query, ResourceUpsert(pushed, resource_tree_node))
        q2       == IF HasAttributesToMerge(resource_tree_node)
                    THEN Append(q1, ResourceAttributesMerge(
                                 pushed, Unwrap(resource_tree_node.attributes)))
                    ELSE q1
        r        == IF IsSome(resource_tree_node.contains)
                    THEN upsert_children(q2, pushed,
                                         Unwrap(resource_tree_node.contains))
                    ELSE [query |-> q2, prefix |-> pushed]
        out      == r.prefix
        popped   == Pop(r.prefix)
        in       == popped
    IN  [query  |-> Append(r.query, ContainsUpsert(in, out, resource_tree_node)),
         prefix |-> IF own THEN prefix ELSE popped]

\* Variant: the resource loop outermost.
upsert_events_resource_outermost(query, report) ==
    query \o Flatten(
        [r \in 1..Len(report.resources) |-> Flatten(
            [p \in 1..Len(report.principals) |->
                [e \in 1..Len(report.events) |->
                    EventUpsert(report.principals[p], report.resources[r],
                                report.events[e])]])])

\* for principal { for resource { for event { query.query(event_upsert) } } }
upsert_events(query, report) ==
    query \o Flatten(
        [p \in 1..Len(report.principals) |-> Flatten(
            [r \in 1..Len(report.resources) |->
                [e \in 1..Len(report.events) |->
                    EventUpsert(report.principals[p], report.resources[r],
                                report.events[e])]])])

RECURSIVE upsert_trees(_, _)
\* for resource_tree_node in req.resources, each with a new empty prefix.
upsert_trees(query, resources) ==
    IF resources = <<>>
    THEN query
    ELSE upsert_trees(
             upsert_resource_tree_node(query, <<>>, Head(resources)).query,
             Tail(resources))

RECURSIVE upsert_event_reports(_, _)
\* for events_report in req.event_reports
upsert_event_reports(query, event_reports) ==
    IF event_reports = <<>>
    THEN query
    ELSE upsert_event_reports(upsert_events(query, Head(event_reports)),
                              Tail(event_reports))

\* Variant: the query does not open a transaction.
report_query_without_begin(req) ==
    Append(upsert_event_reports(upsert_trees(<<>>, req.resources),
                                req.event_reports),
           CommitStatement)

\* Variant: the event edges are upserted before the resource trees.
report_query_events_first(req) ==
    Append(upsert_trees(upsert_event_reports(<<BeginStatement>>,
                                             req.event_reports),
                        req.resources),
           CommitStatement)

\* The query the report handler builds before awaiting it.
report_query(req) ==
    Append(upsert_event_reports(upsert_trees(<<BeginStatement>>, req.resources),
                                req.event_reports),
           CommitStatement)

\* ---------------------------------------------------------- tenant graph

\* A finite map as a function; Put adds or replaces one entry.
Put(f, k, v) == [x \in (DOMAIN f) \cup {k} |-> IF x = k THEN v ELSE f[x]]

EmptyGraph == [resource |-> <<>>, contains |-> <<>>, event |-> <<>>]

\* The record key an INSERT conflicts on.  resource: the id column.
ResourceKey(data) == data.id

\* contains: one edge per (in, out).
ContainsKey(data) == <<data.in, data.out>>

\* event: one edge per (in, out, type).
EventKey(data) == <<data.in, data.out, data.type>>

InsertKey(s) ==
    CASE s.into = "resource" -> ResourceKey(s.data)
      [] s.into = "contains" -> ContainsKey(s.data)
      [] s.into = "event"    -> EventKey(s.data)

\* The row an INSERT creates when its key is new.
InsertRow(s) ==
    IF s.into = "resource"
    THEN [first_seen_at |-> s.data.first_seen_at,
          last_seen_at  |-> s.data.last_seen_at,
          attributes    |-> {}]
    ELSE [first_seen_at |-> s.data.first_seen_at,
          last_seen_at  |-> s.data.last_seen_at]

\* INSERT .. ON DUPLICATE KEY UPDATE <field> = <value>
ApplyInsert(table, s) ==
    IF InsertKey(s) \in DOMAIN table
    THEN [table EXCEPT ![InsertKey(s)] =
              [@ EXCEPT ![s.update[1]] = s.update[2]]]
    ELSE Put(table, InsertKey(s), InsertRow(s))

\* MERGE of an attributes object into the stored one: the keys the new
\* object names are overwritten, the others kept.
MergeAttributes(stored, merged) ==
    {p \in stored : \A q \in merged : q[1] # p[1]} \cup merged

\* UPDATE resource:<id> MERGE { attributes: .. }.  The compiler emits it
\* only right after the upsert of the same id, so the record exists.
ApplyMerge(table, s) ==
    IF s.what \in DOMAIN table
    THEN [table EXCEPT ![s.what] =
              [@ EXCEPT !.attributes =
                   MergeAttributes(@, s.data.attributes)]]
    ELSE table

ApplyStatement(db, s) ==
    CASE s.kind = "insert" -> [db EXCEPT ![s.into] = ApplyInsert(@, s)]
      [] s.kind = "merge"  -> [db EXCEPT !.resource = ApplyMerge(@, s)]
      [] OTHER             -> db

\* ------------------------------------------------------ query execution

\* Per-statement results.  BEGIN and COMMIT produce none.
ResultOk == [tag |-> "Ok", cause |-> 0]

\* surrealdb::Error::Db(surrealdb::error::Db::QueryNotExecuted)
QueryNotExecuted == [tag |-> "QueryNotExecuted", cause |-> 0]

\* The error of the statement that failed, named by its result number.
RealError(k) == [tag |-> "Error", cause |-> k]

IsControl(s) == s.kind \in {"begin", "commit"}

\* Number of statements of a query that produce a result.
NumResults(stmts) == Len(SelectSeq(stmts, LAMBDA s : ~IsControl(s)))

\* One statement executed by the store.  st.db is the data as the
\* statements so far left it, st.saved the data when the open
\* transaction began.  A statement failing inside a transaction cancels
\* it: the data is rolled back, and every other statement of the
\* transaction, before or after, reports QueryNotExecuted.  Outside a
\* transaction each statement commits or fails on its own.
ExecStatement(st, s, failAt) ==
    CASE s.kind = "begin" ->
            [st EXCEPT !.txn = TRUE, !.cancelled = FALSE, !.saved = st.db,
                       !.txnStart = Len(st.results) + 1]
      [] s.kind = "commit" ->
            [st EXCEPT !.txn = FALSE, !.cancelled = FALSE]
      [] OTHER ->
            IF st.txn /\ st.cancelled
            THEN [st EXCEPT !.results = Append(@, QueryNotExecuted)]
            ELSE IF Len(st.results) + 1 = failAt
            THEN IF st.txn
                 THEN [st EXCEPT
                          !.db = st.saved,
                          !.cancelled = TRUE,
                          !.results = Append(
                              [i \in 1..Len(@) |->
                                  IF i >= st.txnStart
                                  THEN QueryNotExecuted ELSE @[i]],
                              RealError(failAt))]
                 ELSE [st EXCEPT !.results = Append(@, RealError(failAt))]
            ELSE [st EXCEPT !.db = ApplyStatement(@, s),
                            !.results = Append(@, ResultOk)]

RECURSIVE ExecStatements(_, _, _)
ExecStatements(st, stmts, failAt) ==
    IF stmts = <<>>
    THEN st
    ELSE ExecStatements(ExecStatement(st, Head(stmts), failAt),
                        Tail(stmts), failAt)

\* query.await: the store runs the statements in order; the failAt-th
\* result-producing statement fails (0: none does).  A transaction still
\* open when the statements end is never committed.
ExecQuery(db, stmts, failAt) ==
    LET st == ExecStatements(
                  [db |-> db, saved |-> db, txn |-> FALSE,
                   cancelled |-> FALSE, results |-> <<>>, txnStart |-> 1],
                  stmts, failAt)
    IN  [db |-> IF st.txn THEN st.saved ELSE st.db, results |-> st.results]

IsError(result) == result.tag # "Ok"

\* surrealdb::Response::check: the error of the first statement that
\* reports one, whatever it is.
Check(res) ==
    IF \E i \in 1..Len(res) : IsError(res[i])
    THEN [tag |-> "Err",
          error |-> res[CHOOSE i \in 1..Len(res) :
                            /\ IsError(res[i])
                            /\ \A j \in 1..(i - 1) : ~IsError(res[j])]]
    ELSE [tag |-> "Ok", error |-> ResultOk]

\* Response::take_errors: the errors of a response by 0-based statement
\* number.
take_errors(res) ==
    {<<i - 1, res[i]>> : i \in {j \in 1..Len(res) : IsError(res[j])}}

\* Variant: max_by_key in place of min_by_key.
check_first_real_error_max_by_key(res) ==
    LET errors == take_errors(res)
        real   == {e \in errors : e[2] # QueryNotExecuted}
    IN  IF errors = {}
        THEN [tag |-> "Ok", error |-> ResultOk]
        ELSE IF real # {}
        THEN [tag |-> "Err",
              error |-> (CHOOSE e \in real : \A f \in real : e[1] >= f[1])[2]]
        ELSE [tag |-> "Err", error |-> QueryNotExecuted]

\* QueryCheckFirstRealError::check_first_real_error: Ok when there is no
\* error; else the error of the lowest statement number among those that
\* are not QueryNotExecuted; else QueryNotExecuted.
check_first_real_error(res) ==
    LET errors == take_errors(res)
        real   == {e \in errors : e[2] # QueryNotExecuted}
    IN  IF errors = {}
        THEN [tag |-> "Ok", error |-> ResultOk]
        ELSE IF real # {}
        THEN [tag |-> "Err",
              error |-> (CHOOSE e \in real : \A f \in real : e[1] <= f[1])[2]]
        ELSE [tag |-> "Err", error |-> QueryNotExecuted]

\* ---------------------------------------------------------------- state

NoRequest == [resources |-> <<>>, event_reports |-> <<>>]

NoResponse == [tag |-> "None", error |-> ResultOk]

Aborted == [tag |-> "Aborted", error |-> ResultOk]

\* No report key value has been minted, altered or validated.
NotMinted ==
    [by |-> "none", account_id |-> <<>>, key_id |-> 0, endpoint |-> <<>>,
     nonce |-> <<>>]

NotTampered == [region |-> "none", at |-> 0]

NotValidated ==
    [tag |-> "None", account_id |-> <<>>, key_id |-> <<>>, error |-> ""]

CodecIdle ==
    /\ presented = <<>>
    /\ minted = NotMinted
    /\ tamper = NotTampered
    /\ deployment = <<>>
    /\ validated = NotValidated

NoReply ==
    [op |-> "none", id |-> 0, tag |-> "None", error |-> "", report_keys |-> {}]

\* A tenant database without report keys.
KeysIdle ==
    /\ report_key = <<>>
    /\ now = 1
    /\ reply = NoReply

\* Requests in flight at once.
MaxTasks == 2

Tasks == 1..MaxTasks

\* No request in flight.
NoTask ==
    [pc |-> "idle", entry |-> "", account_id |-> "", location |-> "",
     db |-> 0]

\* A process that opened no database yet.
TenancyIdle ==
    /\ dbs_by_aws_account_id = <<>>
    /\ DB = <<>>
    /\ session = <<>>
    /\ task = [task_id \in Tasks |-> NoTask]
    /\ executed = {}

\* No request posted yet.
BoundaryIdle == body = None

\* No query made yet.
\* The parameters of a query before its first statement.
NoParams ==
    [resources |-> <<>>, events |-> <<>>, ids |-> <<>>,
     global_containers |-> <<>>, returned |-> FALSE, log |-> <<>>]

QueryIdle == queried = "none" /\ fetched = NoParams /\ answer = <<>>

\* No handler has failed yet.
NoFailure == [public |-> FALSE, status_code |-> 0, message |-> "", cause |-> 0]

NotSent == [status_code |-> 0, message |-> ""]

ErrorsIdle == failure = NoFailure /\ sent = NotSent

\* The RwLock of the cache, held by nobody.
Unlocked == [readers |-> {}, writer |-> 0]

CacheIdle == lock = Unlocked /\ established = <<>>

\* The create_account requests that can be in flight at once.
CreateRequests == {"r1", "r2"}

\* A request not made yet.
NotCreating == [pc |-> "idle", user |-> "", account_id |-> "", outcome |-> ""]

\* An accounts database without records.
NoAccounts == [user |-> {}, account |-> {}, has_access |-> {}]

AccountsIdle ==
    /\ account_store = NoAccounts
    /\ tables = <<>>
    /\ creating = [r \in CreateRequests |-> NotCreating]

LaterIdle == ErrorsIdle /\ CacheIdle /\ AccountsIdle

OtherIdle == TenancyIdle /\ BoundaryIdle /\ QueryIdle /\ LaterIdle

IngestIdle ==
    /\ graph = EmptyGraph
    /\ prevGraph = EmptyGraph
    /\ request = NoRequest
    /\ statements = <<>>
    /\ results = <<>>
    /\ response = NoResponse

Init ==
    /\ IngestIdle
    /\ CodecIdle
    /\ KeysIdle
    /\ OtherIdle

\* POST /report: the handler compiles the request into one query, awaits
\* it and checks the response.
report(req, failAt) ==
    LET query == report_query(req)
        ex    == ExecQuery(graph, query, failAt)
    IN  /\ failAt \in 0..NumResults(query)
        /\ request' = req
        /\ statements' = query
        /\ results' = ex.results
        /\ response' = Check(ex.results)
        /\ graph' = ex.db
        /\ prevGraph' = graph

\* The request is dropped while the query is in flight: the store has run
\* the first n statements and its COMMIT never arrives.
report_aborted(req, n) ==
    LET query == report_query(req)
        ex    == ExecQuery(graph, SubSeq(query, 1, n), 0)
    IN  /\ n \in 0..(Len(query) - 1)
        /\ request' = req
        /\ statements' = query
        /\ results' = <<>>
        /\ response' = Aborted
        /\ graph' = ex.db
        /\ prevGraph' = graph

\* --------------------------------------------------------------- inputs

Host == <<"Host", "h1">>

Secret == <<"Secret", "s1">>

Node(id, globally_unique, first_seen_at, last_seen_at, attributes, contains) ==
    [id              |-> id,
     globally_unique |-> globally_unique,
     first_seen_at   |-> first_seen_at,
     last_seen_at    |-> last_seen_at,
     attributes      |-> attributes,
     contains        |-> contains]

\* Sequences over S of length at most n.
SeqsUpTo(S, n) == UNION {[1..k -> S] : k \in 0..n}

\* (first_seen_at, last_seen_at) pairs an agent reports: both early,
\* early and late, both late.
SeenPairs == {<<1, 1>>, <<1, MaxTime>>, <<MaxTime, MaxTime>>}

\* An agent's observation at (f, l): a host holding a secret, and the
\* host reading the secret.
ObservationRequest(f, l) ==
    [resources |->
        <<Node(Host, None, f, l, None,
               Some(<<Node(Secret, None, f, l, None, None)>>))>>,
     event_reports |->
        <<[principals |-> << <<Host>> >>,
           resources  |-> << <<Host, Secret>> >>,
           events     |-> <<[type |-> "read", first_seen_at |-> f,
                             last_seen_at |-> l]>>]>>]

AttributeMaps ==
    {{}, {<<"k1", "v1">>}, {<<"k1", "v2">>}, {<<"k2", "v1">>}}

\* An agent reporting the host alone, with an attribute map.
AttributeRequest(attributes) ==
    [resources |->
        <<Node(Host, None, 1, MaxTime, Some(attributes), None)>>,
     event_reports |-> <<>>]

\* An agent reporting the host twice in one request, with different
\* timestamps and a different value of the same attribute.
RepeatedHostRequest ==
    [resources |->
        <<Node(Host, None, 1, 1, Some({<<"k1", "v1">>}), None),
          Node(Host, None, MaxTime, MaxTime, Some({<<"k1", "v2">>}), None)>>,
     event_reports |-> <<>>]

\* The requests of the ingestion specification.
IngestRequests ==
    {ObservationRequest(p[1], p[2]) : p \in SeenPairs}
        \cup {AttributeRequest(a) : a \in AttributeMaps}
        \cup {RepeatedHostRequest}

\* Labels of a node of a submitted forest.
GloballyUniqueValues == {None, Some(FALSE), Some(TRUE)}

LabelledNode(id, globally_unique, contains) ==
    Node(id, globally_unique, 1, MaxTime, None, contains)

RECURSIVE TreesOfSize(_)
RECURSIVE ForestsOfSize(_)

\* The trees of exactly n nodes.  A leaf has contains absent, or, drawn
\* for the leaves that state globally_unique = false, present and empty.
TreesOfSize(n) ==
    IF n = 1
    THEN {LabelledNode(id, g, IF g = Some(FALSE) THEN Some(<<>>) ELSE None) :
              id \in {Host, Secret}, g \in GloballyUniqueValues}
    ELSE {LabelledNode(id, g, Some(f)) :
              id \in {Host, Secret}, g \in GloballyUniqueValues,
              f \in ForestsOfSize(n - 1)}

\* The non-empty sequences of trees of n nodes in all (<<>> for n = 0).
ForestsOfSize(n) ==
    IF n = 0
    THEN {<<>>}
    ELSE UNION {{<<t>> \o f : t \in TreesOfSize(k),
                              f \in ForestsOfSize(n - k)} : k \in 1..n}

Forests == UNION {ForestsOfSize(n) : n \in 1..MaxNodes}

EventTypes ==
    {[type |-> "read", first_seen_at |-> 1, last_seen_at |-> MaxTime],
     [type |-> "write", first_seen_at |-> 1, last_seen_at |-> MaxTime]}

EventsReports ==
    {[principals |-> p, resources |-> r, events |-> e] :
        p \in SeqsUpTo({<<Host>>, <<Host, Secret>>}, MaxListLen),
        r \in SeqsUpTo({<<Secret>>, <<Host, Secret>>}, MaxListLen),
        e \in SeqsUpTo(EventTypes, MaxListLen)}

\* A second batch following the first.
SecondEventsReports ==
    {[principals |-> << <<Host>> >>, resources |-> << <<Secret>> >>,
      events |-> <<[type |-> "read", first_seen_at |-> 1,
                    last_seen_at |-> MaxTime]>>]}

EventReportLists ==
    {<<b>> : b \in EventsReports}
        \cup {<<b, c>> : b \in EventsReports, c \in SecondEventsReports}

\* The requests of the compile specification.
CompileRequests ==
    {[resources |-> f, event_reports |-> <<>>] : f \in Forests}
        \cup {[resources |-> <<>>, event_reports |-> e] :
                  e \in EventReportLists}
        \cup {[resources |->
                   <<Node(Host, None, 1, MaxTime, Some(a),
                          Some(<<Node(Secret, g, 1, MaxTime, Some(b),
                                      None)>>))>>,
               event_reports |-> <<e>>] :
                  a \in AttributeMaps, b \in AttributeMaps,
                  g \in GloballyUniqueValues, e \in SecondEventsReports}

\* -------------------------------------------------------- specifications

Report ==
    /\ \E req \in IngestRequests :
           \E failAt \in 0..NumResults(report_query(req)) :
               report(req, failAt)
    /\ UNCHANGED nonIngestVars

ReportAborted ==
    /\ \E req \in IngestRequests :
           \E n \in 0..(Len(report_query(req)) - 1) : report_aborted(req, n)
    /\ UNCHANGED nonIngestVars

Next == Report \/ ReportAborted

\* Ingestion: any sequence of requests of one tenant, each committing,
\* failing at some statement, or aborted.
Spec == Init /\ [][Next]_vars

\* One request, compiled and committed into the empty graph.
CompileReport ==
    /\ response = NoResponse
    /\ \E req \in CompileRequests : report(req, 0)
    /\ UNCHANGED nonIngestVars

CompileNext == CompileReport

\* The upsert compiler over submitted forests and event batches.
SpecCompile == Init /\ [][CompileNext]_vars

\* ---------------------------------------------- reference definitions

Children(node) == IF IsSome(node.contains) THEN Unwrap(node.contains) ELSE <<>>

IsGloballyUnique(node) == node.globally_unique = Some(TRUE)

RECURSIVE HasGloballyUnique(_)
\* Whether the tree holds a node with globally_unique = true.
HasGloballyUnique(node) ==
    \/ IsGloballyUnique(node)
    \/ \E i \in 1..Len(Children(node)) : HasGloballyUnique(Children(node)[i])

RECURSIVE PathsFrom(_, _)
\* The root-to-node segment paths of the tree under `path`, in preorder.
PathsFrom(path, node) ==
    <<Append(path, node.id)>>
        \o Flatten([i \in 1..Len(Children(node)) |->
                        PathsFrom(Append(path, node.id), Children(node)[i])])

IsResourceUpsert(s) == s.kind = "insert" /\ s.into = "resource"

IsContainsUpsert(s) == s.kind = "insert" /\ s.into = "contains"

IsEventUpsert(s) == s.kind = "insert" /\ s.into = "event"

IsAttributesMerge(s) == s.kind = "merge"

\* The ids of the resource upserts of a statement list, in order.
ResourceUpsertIds(stmts) ==
    LET ups == SelectSeq(stmts, IsResourceUpsert)
    IN  [i \in 1..Len(ups) |-> ups[i].data.id]

\* The statements the compiler emits for one tree of a request.
TreeStatements(tree) == upsert_resource_tree_node(<<>>, <<>>, tree).query

RECURSIVE IdentityFrom(_, _, _)
\* The nodes of the tree in preorder, each with the id the identity model
\* gives it (the path from the root, restarting at a globally_unique
\* node) and the id of its structural parent (<<>> for a root).
IdentityFrom(parent, root, node) ==
    LET id == IF IsGloballyUnique(node)
              THEN <<node.id>>
              ELSE Append(parent, node.id)
    IN  <<[id |-> id, parent |-> parent, root |-> root,
           globally_unique |-> IsGloballyUnique(node),
           attributes |-> node.attributes]>>
            \o Flatten([i \in 1..Len(Children(node)) |->
                            IdentityFrom(id, FALSE, Children(node)[i])])

\* The nodes of a forest, tree after tree.
ForestIdentity(resources) ==
    Flatten([i \in 1..Len(resources) |->
                 IdentityFrom(<<>>, TRUE, resources[i])])

\* The (in, out) pairs of the containment upserts of a statement list.
ContainsPairs(stmts) ==
    LET ups == SelectSeq(stmts, IsContainsUpsert)
    IN  [i \in 1..Len(ups) |-> <<ups[i].data.in, ups[i].data.out>>]

SeqRange(q) == {q[i] : i \in 1..Len(q)}

\* ---------------------------------------------------------------- claims

\* C1: in a submitted tree without a globally_unique node, the id each
\* node is upserted under is the list of segments on the path from the
\* tree's root to the node, so it holds no segment of a sibling or of a
\* sibling's subtree.  Stated for the whole compiled request when none of
\* its trees has a globally_unique node, and tree by tree otherwise.
C1_IdsArePaths ==
    /\ (\A i \in 1..Len(request.resources) :
            ~HasGloballyUnique(request.resources[i]))
        => ResourceUpsertIds(statements)
               = Flatten([i \in 1..Len(request.resources) |->
                              PathsFrom(<<>>, request.resources[i])])
    /\ \A i \in 1..Len(request.resources) :
           ~HasGloballyUnique(request.resources[i])
               => ResourceUpsertIds(TreeStatements(request.resources[i]))
                      = PathsFrom(<<>>, request.resources[i])

\* A committed tree without globally_unique nodes whose root has two
\* children.
C1_Witness ==
    /\ response.tag = "Ok"
    /\ \E i \in 1..Len(request.resources) :
           /\ ~HasGloballyUnique(request.resources[i])
           /\ Len(Children(request.resources[i])) = 2
           /\ Len(ResourceUpsertIds(statements)) >= 3

\* C2 (ids): a globally_unique node is upserted under its own segment
\* alone and its descendants under the path from it.
C2_IdsRestart ==
    ResourceUpsertIds(statements)
        = [i \in 1..Len(ForestIdentity(request.resources)) |->
               ForestIdentity(request.resources)[i].id]

\* C2: a globally_unique node N has the id [N] and its descendants the
\* path from N, and the containment edge emitted for N goes from the id
\* of N's structural parent to N.
C2_EdgeFromStructuralParent ==
    /\ C2_IdsRestart
    /\ \A i \in 1..Len(ForestIdentity(request.resources)) :
           LET n == ForestIdentity(request.resources)[i]
           IN  (n.globally_unique /\ ~n.root)
                   => <<n.parent, n.id>> \in SeqRange(ContainsPairs(statements))

\* C3: the containment upserts are one per (parent, child) pair of the
\* forest: none for a root, and none from the empty id.
C3_OneEdgePerParentChildPair ==
    /\ Len(ContainsPairs(statements))
           = Cardinality({i \in 1..Len(ForestIdentity(request.resources)) :
                              ~ForestIdentity(request.resources)[i].root})
    /\ \A i \in 1..Len(ContainsPairs(statements)) :
           ContainsPairs(statements)[i][1] # <<>>

\* The (in, out, type, first_seen_at, last_seen_at) of the event upserts
\* of a statement list, in order.
EventUpsertRows(stmts) ==
    LET ups == SelectSeq(stmts, IsEventUpsert)
    IN  [i \in 1..Len(ups) |->
            <<ups[i].data.in, ups[i].data.out, ups[i].data.type,
              ups[i].data.first_seen_at, ups[i].data.last_seen_at>>]

\* The cross product of a batch by position: row i is the triple
\* (principal p, resource r, event e) with principal outermost.
CrossProductRows(b) ==
    LET nr == Len(b.resources)
        ne == Len(b.events)
    IN  [i \in 1..(Len(b.principals) * nr * ne) |->
            LET p == ((i - 1) \div (nr * ne)) + 1
                r == (((i - 1) \div ne) % nr) + 1
                e == ((i - 1) % ne) + 1
            IN  <<b.principals[p], b.resources[r], b.events[e].type,
                  b.events[e].first_seen_at, b.events[e].last_seen_at>>]

\* C6: a batch of P principals, R resources and E events compiles to
\* exactly P*R*E event upserts, one per triple and duplicates included,
\* ordered principal, then resource, then event; batches follow one
\* another in input order.
C6_CrossProductInOrder ==
    /\ EventUpsertRows(statements)
           = Flatten([k \in 1..Len(request.event_reports) |->
                          CrossProductRows(request.event_reports[k])])
    /\ \A k \in 1..Len(request.event_reports) :
           Len(EventUpsertRows(upsert_events(<<>>, request.event_reports[k])))
               = Len(request.event_reports[k].principals)
                     * Len(request.event_reports[k].resources)
                     * Len(request.event_reports[k].events)

\* Two batches committed, the first with a repeated principal, two
\* different resources and two events: eight upserts, then the second's.
C6_Witness ==
    /\ response.tag = "Ok"
    /\ Len(request.event_reports) = 2
    /\ Len(request.event_reports[1].principals) = 2
    /\ request.event_reports[1].principals[1]
           = request.event_reports[1].principals[2]
    /\ Len(request.event_reports[1].resources) = 2
    /\ request.event_reports[1].resources[1]
           # request.event_reports[1].resources[2]
    /\ Len(request.event_reports[1].events) = 2
    /\ Len(EventUpsertRows(statements)) = 9

\* ------------------------------------------------ ingestion: reference

Tables == {"resource", "contains", "event"}

\* The upserts of a statement list on the record `key` of `table`.
UpsertsOf(stmts, table, key) ==
    SelectSeq(stmts, LAMBDA s : /\ s.kind = "insert"
                                /\ s.into = table
                                /\ InsertKey(s) = key)

\* The keys of `table` a statement list upserts.
Touched(stmts, table) ==
    {InsertKey(stmts[i]) : i \in {j \in 1..Len(stmts) :
                                      /\ stmts[j].kind = "insert"
                                      /\ stmts[j].into = table}}

Last(q) == q[Len(q)]

\* C4: first_seen_at of a resource record, containment edge or event
\* edge is the value of the upsert that created it and no later request
\* changes it; last_seen_at is the value of the most recent upsert of
\* the record that was applied; no record disappears.
C4_Step ==
    \A t \in Tables :
        /\ \A k \in DOMAIN graph[t] :
               /\ k \in DOMAIN graph'[t]
               /\ graph'[t][k].first_seen_at = graph[t][k].first_seen_at
        /\ response'.tag = "Ok" =>
               \A k \in DOMAIN graph'[t] :
                   LET ups == UpsertsOf(statements', t, k)
                   IN  IF ups = <<>>
                       THEN /\ k \in DOMAIN graph[t]
                            /\ graph'[t][k].last_seen_at
                                   = graph[t][k].last_seen_at
                       ELSE /\ graph'[t][k].last_seen_at
                                   = Last(ups).data.last_seen_at
                            /\ k \notin DOMAIN graph[t] =>
                                   graph'[t][k].first_seen_at
                                       = ups[1].data.first_seen_at
        /\ response'.tag = "Ok" => Touched(statements', t) \subseteq DOMAIN graph'[t]

C4_FirstSeenKeptLastSeenOverwritten == [][C4_Step]_vars

\* A committed observation at a later time of records created earlier:
\* the host, the edge to its secret and the event keep first_seen_at 1
\* and carry the new last_seen_at.
C4_Witness ==
    /\ response.tag = "Ok"
    /\ request = ObservationRequest(MaxTime, MaxTime)
    /\ <<Host>> \in DOMAIN prevGraph.resource
    /\ prevGraph.resource[<<Host>>].last_seen_at = 1
    /\ graph.resource[<<Host>>].first_seen_at = 1
    /\ graph.resource[<<Host>>].last_seen_at = MaxTime
    /\ graph.contains[<< <<Host>>, <<Host, Secret>> >>].first_seen_at = 1
    /\ graph.event[<< <<Host>>, <<Host, Secret>>, "read" >>].last_seen_at
           = MaxTime

RECURSIVE WithoutLastSeen(_)
\* The tree with every last_seen_at erased.
WithoutLastSeen(node) ==
    [node EXCEPT
        !.last_seen_at = 0,
        !.contains = IF IsSome(node.contains)
                     THEN Some([i \in 1..Len(Unwrap(node.contains)) |->
                                   WithoutLastSeen(Unwrap(node.contains)[i])])
                     ELSE None]

\* Whether two requests are the same but for their last_seen_at fields.
SameButLastSeen(r1, r2) ==
    /\ Len(r1.resources) = Len(r2.resources)
    /\ \A i \in 1..Len(r1.resources) :
           WithoutLastSeen(r1.resources[i]) = WithoutLastSeen(r2.resources[i])
    /\ Len(r1.event_reports) = Len(r2.event_reports)
    /\ \A i \in 1..Len(r1.event_reports) :
           /\ r1.event_reports[i].principals = r2.event_reports[i].principals
           /\ r1.event_reports[i].resources = r2.event_reports[i].resources
           /\ Len(r1.event_reports[i].events) = Len(r2.event_reports[i].events)
           /\ \A e \in 1..Len(r1.event_reports[i].events) :
                  [r1.event_reports[i].events[e] EXCEPT !.last_seen_at = 0]
                      = [r2.event_reports[i].events[e] EXCEPT !.last_seen_at = 0]

\* C5: a request committed right after the same request was committed
\* leaves the resource set, the attribute maps, the edge sets and every
\* first_seen_at as they were; only last_seen_at may change, to the
\* second submission's values.  The identical request changes nothing.
C5_Step ==
    (response.tag = "Ok" /\ response'.tag = "Ok"
        /\ SameButLastSeen(request, request'))
    => /\ \A t \in Tables :
              /\ DOMAIN graph'[t] = DOMAIN graph[t]
              /\ \A k \in DOMAIN graph[t] :
                     /\ [graph'[t][k] EXCEPT !.last_seen_at = 0]
                            = [graph[t][k] EXCEPT !.last_seen_at = 0]
                     /\ graph'[t][k].last_seen_at
                            = IF UpsertsOf(statements', t, k) = <<>>
                              THEN graph[t][k].last_seen_at
                              ELSE Last(UpsertsOf(statements', t, k))
                                       .data.last_seen_at
       /\ request' = request => graph' = graph

C5_Idempotent == [][C5_Step]_vars

\* The observation (1, 1) committed into the empty graph and submitted
\* again with last_seen_at advanced.
C5_Witness ==
    /\ response.tag = "Ok"
    /\ request = ObservationRequest(1, MaxTime)
    /\ prevGraph
           = ExecQuery(EmptyGraph, report_query(ObservationRequest(1, 1)), 0).db
    /\ graph # prevGraph
    /\ graph.event[<< <<Host>>, <<Host, Secret>>, "read" >>]
           = [first_seen_at |-> 1, last_seen_at |-> MaxTime]

\* The graph after `req` commits on `db`.
Commit(db, req) == ExecQuery(db, report_query(req), 0).db

MergeRows(stmts) ==
    LET ms == SelectSeq(stmts, IsAttributesMerge)
    IN  [i \in 1..Len(ms) |-> <<ms[i].what, ms[i].data.attributes>>]

\* The nodes of a request whose attributes are present and not empty.
NodesWithAttributes(req) ==
    SelectSeq(ForestIdentity(req.resources),
              LAMBDA n : IsSome(n.attributes) /\ Unwrap(n.attributes) # {})

\* The positions of the nodes of id k whose attribute map names `name`.
Namers(req, k, name) ==
    {i \in 1..Len(NodesWithAttributes(req)) :
        /\ NodesWithAttributes(req)[i].id = k
        /\ \E q \in Unwrap(NodesWithAttributes(req)[i].attributes) :
               q[1] = name}

Max(S) == CHOOSE x \in S : \A y \in S : y <= x

AttributeNames(attributes) == {q[1] : q \in attributes}

\* C8: an attribute merge is emitted for exactly the nodes whose map is
\* present and not empty; a request keeps every stored attribute that
\* none of its nodes names (so a node without attributes, or with an
\* empty map, changes none), and a committed map overwrites the keys it
\* names.
C8_Step ==
    /\ MergeRows(statements')
           = [i \in 1..Len(NodesWithAttributes(request')) |->
                  <<NodesWithAttributes(request')[i].id,
                    Unwrap(NodesWithAttributes(request')[i].attributes)>>]
    /\ \A k \in DOMAIN graph.resource :
           \A p \in graph.resource[k].attributes :
               Namers(request', k, p[1]) = {}
                   => p \in graph'.resource[k].attributes
    /\ response'.tag = "Ok" =>
           \A k \in DOMAIN graph'.resource :
               \A name \in AttributeNames(graph'.resource[k].attributes) :
                   LET at == Namers(request', k, name)
                   IN  at # {} =>
                           {q \in graph'.resource[k].attributes : q[1] = name}
                               = {q \in Unwrap(NodesWithAttributes(request')
                                                    [Max(at)].attributes) :
                                      q[1] = name}

C8_AttributeFrame == [][C8_Step]_vars

\* The host holds k1 and k2; a committed request rewrote k1 alone.
C8_Witness ==
    /\ response.tag = "Ok"
    /\ request = AttributeRequest({<<"k1", "v2">>})
    /\ <<Host>> \in DOMAIN prevGraph.resource
    /\ prevGraph.resource[<<Host>>].attributes
           = {<<"k1", "v1">>, <<"k2", "v1">>}
    /\ graph.resource[<<Host>>].attributes
           = {<<"k1", "v2">>, <<"k2", "v1">>}

\* The host holds attributes; a committed request with an empty map
\* left them alone.
C8_WitnessEmptyMap ==
    /\ response.tag = "Ok"
    /\ request = AttributeRequest({})
    /\ <<Host>> \in DOMAIN prevGraph.resource
    /\ prevGraph.resource[<<Host>>].attributes # {}
    /\ graph.resource[<<Host>>].attributes
           = prevGraph.resource[<<Host>>].attributes

\* C9: the statements of a request are one transaction, BEGIN first,
\* COMMIT last and neither in between, and a request that fails at a
\* statement or is aborted before its COMMIT leaves the graph as it was.
C9_Step ==
    /\ Len(statements') >= 2
    /\ statements'[1] = BeginStatement
    /\ Last(statements') = CommitStatement
    /\ \A i \in 2..(Len(statements') - 1) : ~IsControl(statements'[i])
    /\ response'.tag # "Ok" => graph' = graph

C9_Atomic == [][C9_Step]_vars

\* An observation failed at its third statement over a graph that holds
\* none of its records: the host and secret upserts before it are gone.
C9_Witness ==
    /\ response.tag = "Err"
    /\ Len(results) = 5
    /\ results[3] = RealError(3)
    /\ \E p \in SeenPairs : request = ObservationRequest(p[1], p[2])
    /\ <<Host, Secret>> \notin DOMAIN prevGraph.resource
    /\ graph = prevGraph

\* C10: when a statement of the transaction fails for a concrete reason
\* the handler surfaces that statement's error, not QueryNotExecuted.
C10_SurfacesRealError ==
    \A k \in 1..Len(results) :
        results[k].tag = "Error" =>
            /\ response.tag = "Err"
            /\ response.error = results[k]

\* ------------------------------------------- check_first_real_error

\* The per-statement result lists a response may carry: any mix of
\* successes, QueryNotExecuted and two distinguishable concrete errors.
ResultLists ==
    SeqsUpTo({ResultOk, QueryNotExecuted, RealError(1), RealError(2)},
             MaxResults)

InitCheck ==
    /\ graph = EmptyGraph
    /\ prevGraph = EmptyGraph
    /\ request = NoRequest
    /\ statements = <<>>
    /\ results \in ResultLists
    /\ response = NoResponse
    /\ CodecIdle
    /\ KeysIdle
    /\ OtherIdle

\* response.check_first_real_error() on the response at hand.
CheckFirstRealError ==
    /\ response = NoResponse
    /\ response' = check_first_real_error(results)
    /\ UNCHANGED <<graph, prevGraph, request, statements, results>>
    /\ UNCHANGED nonIngestVars

CheckNext == CheckFirstRealError

\* check_first_real_error over every bounded result list.
SpecCheck == InitCheck /\ [][CheckNext]_vars

\* The positions of a result list that carry an error.
ErrorPositions(res) == {i \in 1..Len(res) : res[i].tag # "Ok"}

\* Those whose error is not the generic not-executed status.
RealErrorPositions(res) ==
    {i \in ErrorPositions(res) : res[i].tag # "QueryNotExecuted"}

Min(S) == CHOOSE x \in S : \A y \in S : x <= y

\* C11: check_first_real_error succeeds iff the list has no error; when
\* some error is not QueryNotExecuted it returns the error of the
\* lowest-numbered such statement; when every error is QueryNotExecuted
\* it returns QueryNotExecuted as an error, never success.
C11_FirstRealError ==
    response.tag # "None" =>
        /\ response.tag \in {"Ok", "Err"}
        /\ response.tag = "Ok" <=> ErrorPositions(results) = {}
        /\ RealErrorPositions(results) # {} =>
               /\ response.tag = "Err"
               /\ response.error = results[Min(RealErrorPositions(results))]
        /\ (ErrorPositions(results) # {} /\ RealErrorPositions(results) = {}) =>
               /\ response.tag = "Err"
               /\ response.error.tag = "QueryNotExecuted"

\* A cancelled transaction as the store reports it: not-executed first,
\* then two concrete errors; the first of the two is returned.
C11_Witness ==
    /\ results = <<QueryNotExecuted, RealError(2), RealError(1)>>
    /\ response = [tag |-> "Err", error |-> RealError(2)]

\* Every error is QueryNotExecuted and the helper returned it.
C11_WitnessOnlyNotExecuted ==
    /\ results = <<ResultOk, QueryNotExecuted>>
    /\ response = [tag |-> "Err", error |-> QueryNotExecuted]

\* ---------------------------------------------------- strings and bytes
\* A string is the sequence of its UTF-8 bytes; a byte is in 0..255.

RECURSIVE Display_u32(_)
\* format!("{}", n) of an unsigned integer: its decimal digits.
Display_u32(n) ==
    IF n < 10
    THEN <<48 + n>>
    ELSE Append(Display_u32(n \div 10), 48 + (n % 10))

IsDigit(c) == c \in 48..57

RECURSIVE StripZeros(_)
\* The digits without leading zeros (one digit at least is kept).
StripZeros(d) ==
    IF Len(d) > 1 /\ d[1] = 48 THEN StripZeros(Tail(d)) ELSE d

RECURSIVE LexLeq(_, _)
\* a <= b for digit strings of one length.
LexLeq(a, b) ==
    \/ a = <<>>
    \/ a[1] < b[1]
    \/ (a[1] = b[1] /\ LexLeq(Tail(a), Tail(b)))

\* a <= b for numbers given by their digits without leading zeros.
DigitsLeq(a, b) ==
    \/ Len(a) < Len(b)
    \/ (Len(a) = Len(b) /\ LexLeq(a, b))

\* u32::MAX, 4294967295
U32MaxDigits == <<52, 50, 57, 52, 57, 54, 55, 50, 57, 53>>

\* str::parse::<u32>: an optional '+', then one digit or more, the value
\* at most u32::MAX.  The value is given by its digits without leading
\* zeros.
parse_u32(text) ==
    LET d == IF text # <<>> /\ text[1] = 43 THEN Tail(text) ELSE text
    IN  IF d = <<>> \/ \E i \in 1..Len(d) : ~IsDigit(d[i])
        THEN [ok |-> FALSE, digits |-> <<>>]
        ELSE IF ~DigitsLeq(StripZeros(d), U32MaxDigits)
        THEN [ok |-> FALSE, digits |-> <<>>]
        ELSE [ok |-> TRUE, digits |-> StripZeros(d)]

\* The standard base64 alphabet: the character of a 6-bit value.
Base64Char(v) ==
    IF v < 26 THEN 65 + v
    ELSE IF v < 52 THEN 97 + (v - 26)
    ELSE IF v < 62 THEN 48 + (v - 52)
    ELSE IF v = 62 THEN 43
    ELSE 47

\* The 6-bit value of a character, 64 for a character outside the
\* alphabet.
Base64Sextet(c) ==
    IF c \in 65..90 THEN c - 65
    ELSE IF c \in 97..122 THEN (c - 97) + 26
    ELSE IF c \in 48..57 THEN (c - 48) + 52
    ELSE IF c = 43 THEN 62
    ELSE IF c = 47 THEN 63
    ELSE 64

RECURSIVE base64_encode(_)
\* BASE64_STANDARD.encode: three bytes to four characters, '=' padded.
base64_encode(b) ==
    IF b = <<>>
    THEN <<>>
    ELSE IF Len(b) = 1
    THEN <<Base64Char(b[1] \div 4), Base64Char((b[1] % 4) * 16), 61, 61>>
    ELSE IF Len(b) = 2
    THEN <<Base64Char(b[1] \div 4),
           Base64Char((b[1] % 4) * 16 + (b[2] \div 16)),
           Base64Char((b[2] % 16) * 4), 61>>
    ELSE <<Base64Char(b[1] \div 4),
           Base64Char((b[1] % 4) * 16 + (b[2] \div 16)),
           Base64Char((b[2] % 16) * 4 + (b[3] \div 64)),
           Base64Char(b[3] % 64)>>
             \o base64_encode(SubSeq(b, 4, Len(b)))

RECURSIVE Base64Bytes(_)
\* The bytes of a run of 6-bit values; a last group of two values holds
\* one byte and of three values two bytes.
Base64Bytes(v) ==
    IF Len(v) < 2
    THEN <<>>
    ELSE IF Len(v) = 2
    THEN <<v[1] * 4 + (v[2] \div 16)>>
    ELSE IF Len(v) = 3
    THEN <<v[1] * 4 + (v[2] \div 16), (v[2] % 16) * 16 + (v[3] \div 4)>>
    ELSE <<v[1] * 4 + (v[2] \div 16), (v[2] % 16) * 16 + (v[3] \div 4),
           (v[3] % 4) * 64 + v[4]>>
             \o Base64Bytes(SubSeq(v, 5, Len(v)))

\* BASE64_STANDARD.decode: the text must be the padded encoding of its
\* bytes (alphabet characters only, canonical padding, no stray bits).
base64_decode(text) ==
    LET n    == Len(text)
        pad  == IF n >= 2 /\ text[n] = 61 /\ text[n - 1] = 61 THEN 2
                ELSE IF n >= 1 /\ text[n] = 61 THEN 1
                ELSE 0
        data == SubSeq(text, 1, n - pad)
        vals == [i \in 1..Len(data) |-> Base64Sextet(data[i])]
    IN  IF n % 4 # 0 \/ \E i \in 1..Len(vals) : vals[i] = 64
        THEN [ok |-> FALSE, bytes |-> <<>>]
        ELSE IF base64_encode(Base64Bytes(vals)) # text
        THEN [ok |-> FALSE, bytes |-> <<>>]
        ELSE [ok |-> TRUE, bytes |-> Base64Bytes(vals)]

IsContinuation(c) == c \in 128..191

RECURSIVE from_utf8_ok(_)
\* Whether std::str::from_utf8 accepts the bytes.
from_utf8_ok(b) ==
    IF b = <<>> THEN TRUE
    ELSE IF b[1] < 128 THEN from_utf8_ok(Tail(b))
    ELSE IF b[1] \in 194..223
    THEN /\ Len(b) >= 2
         /\ IsContinuation(b[2])
         /\ from_utf8_ok(SubSeq(b, 3, Len(b)))
    ELSE IF b[1] \in 224..239
    THEN /\ Len(b) >= 3
         /\ IsContinuation(b[2])
         /\ IsContinuation(b[3])
         /\ (b[1] = 224 => b[2] >= 160)
         /\ (b[1] = 237 => b[2] <= 159)
         /\ from_utf8_ok(SubSeq(b, 4, Len(b)))
    ELSE IF b[1] \in 240..244
    THEN /\ Len(b) >= 4
         /\ IsContinuation(b[2])
         /\ IsContinuation(b[3])
         /\ IsContinuation(b[4])
         /\ (b[1] = 240 => b[2] >= 144)
         /\ (b[1] = 244 => b[2] <= 143)
         /\ from_utf8_ok(SubSeq(b, 5, Len(b)))
    ELSE FALSE

\* Whether `text` begins with `prefix`.
starts_with(text, prefix) ==
    /\ Len(text) >= Len(prefix)
    /\ SubSeq(text, 1, Len(prefix)) = prefix

\* str::strip_prefix, for a text that begins with the prefix.
strip_prefix(text, prefix) == SubSeq(text, Len(prefix) + 1, Len(text))

\* ------------------------------------------------------------- AES-GCM
\* Aes128Gcm as an authenticated cipher: the ciphertext is the message
\* masked by a keystream of the key and nonce, followed by a tag computed
\* from the key, the nonce, the associated data and the ciphertext;
\* decrypt recomputes the tag and fails unless it matches.  The tag is a
\* family of polynomial hashes, so that a change of any one byte of its
\* input changes it.

\* Bytes of an Aes128Gcm nonce (96 bits).
NonceLen == 12

\* Bytes of an Aes128Gcm tag (128 bits).
TagLen == 16

\* Env::api_key_kms_data_key(): the deployment's data key.
DataKey == 7

\* The modulus of the tag's hashes.
TagModulus == 257

Keystream(key, nonce, i) ==
    (key + nonce[((i - 1) % Len(nonce)) + 1] + i) % 256

Mask(key, nonce, msg) ==
    [i \in 1..Len(msg) |-> (msg[i] + Keystream(key, nonce, i)) % 256]

Unmask(key, nonce, ct) ==
    [i \in 1..Len(ct) |-> (ct[i] + 256 - Keystream(key, nonce, i)) % 256]

RECURSIVE PowMod(_, _)
\* x^n modulo TagModulus
PowMod(x, n) ==
    IF n = 0
    THEN 1
    ELSE LET h == PowMod(x, n \div 2)
         IN  (h * h * (IF n % 2 = 1 THEN x ELSE 1)) % TagModulus

RECURSIVE PolySum(_, _, _, _)
\* The sum of input[i] * x^i for i in lo..hi, modulo TagModulus.
PolySum(input, x, lo, hi) ==
    IF lo > hi
    THEN 0
    ELSE IF lo = hi
    THEN (input[lo] * PowMod(x, lo)) % TagModulus
    ELSE (PolySum(input, x, lo, (lo + hi) \div 2)
             + PolySum(input, x, ((lo + hi) \div 2) + 1, hi)) % TagModulus

\* key + input[1]*x + input[2]*x^2 + ... modulo TagModulus
PolyHash(key, input, x) ==
    (key + PolySum(input, x, 1, Len(input))) % TagModulus

\* The tag: TagLen \div 2 hashes at different points, two bytes each.
Tag(key, nonce, aad, ct) ==
    LET input == <<Len(aad) % 256>> \o aad \o nonce \o ct
    IN  Flatten([j \in 1..(TagLen \div 2) |->
                    <<PolyHash(key, input, j + 1) \div 256,
                      PolyHash(key, input, j + 1) % 256>>])

\* cipher.encrypt(nonce, Payload { msg, aad }): ciphertext then tag.
encrypt(key, nonce, msg, aad) ==
    Mask(key, nonce, msg) \o Tag(key, nonce, aad, Mask(key, nonce, msg))

\* Variant: the tag is not verified.
decrypt_without_tag_check(key, nonce, msg, aad) ==
    IF Len(msg) < TagLen
    THEN [ok |-> FALSE, bytes |-> <<>>]
    ELSE [ok |-> TRUE,
          bytes |-> Unmask(key, nonce, SubSeq(msg, 1, Len(msg) - TagLen))]

\* cipher.decrypt(nonce, Payload { msg, aad }): the message, or an error
\* when the input is shorter than a tag or the tag does not match.
decrypt(key, nonce, msg, aad) ==
    LET n  == Len(msg) - TagLen
        ct == SubSeq(msg, 1, n)
    IN  IF n < 0
        THEN [ok |-> FALSE, bytes |-> <<>>]
        ELSE IF SubSeq(msg, n + 1, Len(msg)) # Tag(key, nonce, aad, ct)
        THEN [ok |-> FALSE, bytes |-> <<>>]
        ELSE [ok |-> TRUE, bytes |-> Unmask(key, nonce, ct)]

\* ------------------------------------------------------ report key codec

\* "archodex_report_key_"
ReportKeyPrefix ==
    <<97, 114, 99, 104, 111, 100, 101, 120, 95, 114, 101, 112, 111, 114,
      116, 95, 107, 101, 121, 95>>

\* "key_id="
KeyIdLabel == <<107, 101, 121, 95, 105, 100, 61>>

\* ";endpoint="
EndpointLabel == <<59, 101, 110, 100, 112, 111, 105, 110, 116, 61>>

\* "account_id="
AccountIdLabel == <<97, 99, 99, 111, 117, 110, 116, 95, 105, 100, 61>>

\* '_'
Underscore == 95

\* format!("key_id={};endpoint={}", ..) at minting.
generate_aad(key_id_digits, endpoint) ==
    KeyIdLabel \o key_id_digits \o EndpointLabel \o endpoint

\* The bytes that are base64-encoded: the endpoint and the nonce, each
\* behind a length byte (len() as u8), then ciphertext and tag.
ValueBytes(endpoint, nonce, encrypted_account_id) ==
    <<Len(endpoint) % 256>> \o endpoint
        \o <<Len(nonce) % 256>> \o nonce
        \o encrypted_account_id

\* ReportKey::generate_value, for the key id self.id, with the nonce
\* the random source yields and the endpoint the deployment is
\* configured with.
generate_value(id, account_id, endpoint, nonce) ==
    LET aad == generate_aad(Display_u32(id), endpoint)
        plaintext_msg == AccountIdLabel \o account_id
        encrypted_account_id == encrypt(DataKey, nonce, plaintext_msg, aad)
    IN  ReportKeyPrefix \o Display_u32(id) \o <<Underscore>>
            \o base64_encode(ValueBytes(endpoint, nonce, encrypted_account_id))

\* The outcomes of validate_value: Ok((account_id, key_id)), Err(error),
\* or a panic that unwinds out of the call.
ValidateOk(account_id, key_id) ==
    [tag |-> "Ok", account_id |-> account_id, key_id |-> key_id,
     error |-> ""]

ValidateErr(error) ==
    [tag |-> "Err", account_id |-> <<>>, key_id |-> <<>>, error |-> error]

ValidatePanic ==
    [tag |-> "Panic", account_id |-> <<>>, key_id |-> <<>>,
     error |-> "from_slice: slice length differs from the nonce length"]

\* The position of the first '_' of a text, 0 when it has none.
FirstUnderscore(text) ==
    IF \E i \in 1..Len(text) : text[i] = Underscore
    THEN CHOOSE i \in 1..Len(text) :
             /\ text[i] = Underscore
             /\ \A j \in 1..(i - 1) : text[j] # Underscore
    ELSE 0

\* format!("key_id={key_id};endpoint={endpoint}") at validation.
validate_aad(key_id_digits, endpoint) ==
    KeyIdLabel \o key_id_digits \o EndpointLabel \o endpoint

\* Variant: the decoded endpoint is not compared.
EndpointMatchesAlways(endpoint, env_endpoint) == TRUE

\* ensure!(endpoint == Env::endpoint(), ..)
EndpointMatches(endpoint, env_endpoint) == endpoint = env_endpoint

\* aead::Nonce::<Aes128Gcm>::from_slice: panics unless the slice has the
\* nonce length.
NonceFromSliceOk(slice) == Len(slice) = NonceLen

\* The tail of validate_value, from the decoded bytes on.
ValidateDecoded(key_id, value, env_endpoint) ==
    LET endpoint_len == value[1]
        endpoint     == SubSeq(value, 2, 1 + endpoint_len)
        nonce_len    == value[1 + endpoint_len + 1]
        nonce        == SubSeq(value, 1 + endpoint_len + 1 + 1,
                               1 + endpoint_len + 1 + nonce_len)
        encrypted_message ==
            SubSeq(value, 1 + endpoint_len + 1 + nonce_len + 1, Len(value))
        aad          == validate_aad(key_id, endpoint)
        decrypted_message == decrypt(DataKey, nonce, encrypted_message, aad)
        account_id   == strip_prefix(decrypted_message.bytes, AccountIdLabel)
    IN  IF ~(Len(value) > 0)
        THEN ValidateErr("Missing endpoint length")
        ELSE IF ~(Len(value) > 1 + endpoint_len)
        THEN ValidateErr("Invalid endpoint length")
        ELSE IF ~from_utf8_ok(endpoint)
        THEN ValidateErr("Non-UTF-8 endpoint")
        ELSE IF ~EndpointMatches(endpoint, env_endpoint)
        THEN ValidateErr("Incorrect endpoint")
        ELSE IF ~(Len(value) > 1 + endpoint_len + 1)
        THEN ValidateErr("Missing nonce length")
        ELSE IF ~(Len(value) > 1 + endpoint_len + nonce_len + 1)
        THEN ValidateErr("Invalid nonce length")
        ELSE IF ~NonceFromSliceOk(nonce)
        THEN ValidatePanic
        ELSE IF ~decrypted_message.ok
        THEN ValidateErr("Failed to decrypt account ID")
        ELSE IF ~from_utf8_ok(decrypted_message.bytes)
        THEN ValidateErr("Non-UTF-8 account ID")
        ELSE IF ~starts_with(decrypted_message.bytes, AccountIdLabel)
        THEN ValidateErr("Missing account ID prefix")
        ELSE IF ~parse_u32(account_id).ok
        THEN ValidateErr("Account ID is not valid")
        ELSE ValidateOk(account_id, key_id)

\* ReportKey::validate_value at a deployment whose configured endpoint
\* is env_endpoint.  The key id is returned by its decimal digits.
validate_value(report_key_value, env_endpoint) ==
    LET rest   == strip_prefix(report_key_value, ReportKeyPrefix)
        split  == FirstUnderscore(rest)
        key_id == parse_u32(SubSeq(rest, 1, split - 1))
        value  == base64_decode(SubSeq(rest, split + 1, Len(rest)))
    IN  IF ~starts_with(report_key_value, ReportKeyPrefix)
        THEN ValidateErr("Missing prefix")
        ELSE IF split = 0
        THEN ValidateErr("Invalid format")
        ELSE IF ~key_id.ok
        THEN ValidateErr("Key ID is not a number")
        ELSE IF ~(/\ DigitsLeq(Display_u32(100000), key_id.digits)
                  /\ DigitsLeq(key_id.digits, Display_u32(999999)))
        THEN ValidateErr("Key ID is out of range")
        ELSE IF ~value.ok
        THEN ValidateErr("Failed to base64 decode report key value")
        ELSE ValidateDecoded(key_id.digits, value.bytes, env_endpoint)

\* ---------------------------------------------------- report key records

\* ReportKey::new(description, created_by), with the id the random
\* source yields.
ReportKeyNew(id, description, created_by) ==
    [id |-> id, description |-> description, created_at |-> None,
     created_by |-> created_by, revoked_at |-> None, revoked_by |-> None]

\* CREATE report_key:<id> CONTENT { description, created_by }: the record
\* is added; the statement fails when a record of that id exists.
create_report_key_query(table, new_key) ==
    IF new_key.id \in DOMAIN table
    THEN [ok |-> FALSE, table |-> table]
    ELSE [ok |-> TRUE,
          table |-> Put(table, new_key.id,
                        [description |-> new_key.description,
                         created_by  |-> new_key.created_by,
                         revoked_at  |-> None,
                         revoked_by  |-> None])]

\* The report_key_value the create_report_key handler builds: the
\* account id encrypted with the associated data "endpoint=<endpoint>",
\* behind the endpoint and the nonce, base64-encoded.
create_report_key_value(account_id, endpoint, nonce) ==
    LET aad == Tail(EndpointLabel) \o endpoint
        encrypted_account_id == encrypt(DataKey, nonce, account_id, aad)
    IN  base64_encode(ValueBytes(endpoint, nonce, encrypted_account_id))

\* What a handler or middleware returned: Ok, or an error.  `op` names
\* the operation and `id` the key id it was about; report_keys holds the
\* ids a listing returned.
ReplyOk(op, id) ==
    [op |-> op, id |-> id, tag |-> "Ok", error |-> "", report_keys |-> {}]

ReplyErr(op, id, error) ==
    [op |-> op, id |-> id, tag |-> "Err", error |-> error,
     report_keys |-> {}]

\* POST /account/:account_id/report_api_keys: the handler creates the
\* key record in its own transaction and, when that committed, builds
\* and returns the report key value.
create_report_key(account_id, id, description, principal, endpoint, nonce) ==
    LET new_key == ReportKeyNew(id, description, principal)
        created == create_report_key_query(report_key, new_key)
    IN  /\ report_key' = created.table
        /\ IF created.ok
           THEN /\ presented' = create_report_key_value(account_id, endpoint,
                                                        nonce)
                /\ minted' = [by |-> "create_report_key",
                              account_id |-> account_id, key_id |-> id,
                              endpoint |-> endpoint, nonce |-> nonce]
                /\ reply' = ReplyOk("create", id)
           ELSE /\ UNCHANGED <<presented, minted>>
                /\ reply' = ReplyErr("create", id, "record already exists")
        /\ UNCHANGED <<tamper, deployment, validated, now>>
        /\ UNCHANGED nonKeyVars

\* ------------------------------------------------- codec: specification

\* "ep1" and "ep2"
Endpoints == {<<101, 112, 49>>, <<101, 112, 50>>}

\* Account ids: "42", and of the ids Account::new draws
\* (1000000000..=9999999999) the two around u32::MAX.
AccountIds ==
    {<<52, 50>>,
     <<52, 50, 57, 52, 57, 54, 55, 50, 57, 53>>,
     <<52, 50, 57, 52, 57, 54, 55, 50, 57, 54>>}

\* Key ids: 7, and one of the ids ReportKey::new draws
\* (100000..=999999).
KeyIds == {7, 100007}

\* Nonces the random source may yield.
Nonces == {[i \in 1..NonceLen |-> i], [i \in 1..NonceLen |-> 255]}

Users == {"u1", "u2"}

Descriptions == {None, Some("agent")}

\* A key of id `id` mints a value for the account at a deployment
\* configured with `endpoint`.
GenerateValue ==
    /\ minted = NotMinted
    /\ tamper = NotTampered
    /\ \E id \in KeyIds, account_id \in AccountIds, endpoint \in Endpoints,
          nonce \in Nonces :
           /\ presented' = generate_value(id, account_id, endpoint, nonce)
           /\ minted' = [by |-> "generate_value", account_id |-> account_id,
                         key_id |-> id, endpoint |-> endpoint,
                         nonce |-> nonce]
    /\ UNCHANGED <<tamper, deployment, validated>>
    /\ UNCHANGED nonCodecVars

\* The dashboard creates a report key.
CreateReportKey ==
    /\ minted = NotMinted
    /\ tamper = NotTampered
    /\ \E id \in KeyIds \ {7}, account_id \in AccountIds,
          endpoint \in Endpoints, nonce \in Nonces :
           create_report_key(account_id, id, None, "u1", endpoint, nonce)

\* The text of a value minted by generate_value after its key id and '_'.
PresentedPayload ==
    SubSeq(presented,
           Len(ReportKeyPrefix) + Len(Display_u32(minted.key_id)) + 2,
           Len(presented))

\* The bytes the minted value encodes.
PresentedBytes == base64_decode(PresentedPayload).bytes

\* The part of the minted bytes that position i lies in.
Region(i) ==
    LET e == Len(minted.endpoint)
        m == Len(AccountIdLabel) + Len(minted.account_id)
    IN  IF i = 1 THEN "endpoint_len"
        ELSE IF i <= 1 + e THEN "endpoint"
        ELSE IF i = 2 + e THEN "nonce_len"
        ELSE IF i <= 2 + e + NonceLen THEN "nonce"
        ELSE IF i <= 2 + e + NonceLen + m THEN "ciphertext"
        ELSE "tag"

\* The values a byte is changed to.
TamperValues(b) == {(b + 1) % 256, (b + 128) % 256}

CanTamper ==
    /\ minted.by = "generate_value"
    /\ tamper = NotTampered
    /\ validated = NotValidated

\* Someone changes one byte of the minted value and re-encodes it.
TamperByte ==
    /\ CanTamper
    /\ \E i \in 1..Len(PresentedBytes) :
           \E v \in TamperValues(PresentedBytes[i]) :
               /\ presented' = ReportKeyPrefix \o Display_u32(minted.key_id)
                                   \o <<Underscore>>
                                   \o base64_encode(
                                          [PresentedBytes EXCEPT ![i] = v])
               /\ tamper' = [region |-> Region(i), at |-> i]
    /\ UNCHANGED <<minted, deployment, validated>>
    /\ UNCHANGED nonCodecVars

\* Someone cuts the minted bytes short and re-encodes them.
Truncate ==
    /\ CanTamper
    /\ \E n \in 0..(Len(PresentedBytes) - 1) :
           /\ presented' = ReportKeyPrefix \o Display_u32(minted.key_id)
                               \o <<Underscore>>
                               \o base64_encode(SubSeq(PresentedBytes, 1, n))
           /\ tamper' = [region |-> "truncated", at |-> n]
    /\ UNCHANGED <<minted, deployment, validated>>
    /\ UNCHANGED nonCodecVars

\* Texts put in the place of the key id: other ids, other spellings of
\* an id ("+100007", "0100007"), "1e5" and the empty text.
KeyIdTexts ==
    {Display_u32(7), Display_u32(100007), Display_u32(100008),
     Display_u32(999999), <<43>> \o Display_u32(100007),
     <<48>> \o Display_u32(100007), <<49, 101, 53>>, <<>>}

\* Someone rewrites the key id of the minted value.
TamperKeyId ==
    /\ CanTamper
    /\ \E text \in KeyIdTexts \ {Display_u32(minted.key_id)} :
           /\ presented' = ReportKeyPrefix \o text \o <<Underscore>>
                               \o PresentedPayload
           /\ tamper' =
                  [region |-> IF /\ parse_u32(text).ok
                                 /\ parse_u32(text).digits
                                        = Display_u32(minted.key_id)
                              THEN "key_id_spelling"
                              ELSE "key_id",
                   at |-> 0]
    /\ UNCHANGED <<minted, deployment, validated>>
    /\ UNCHANGED nonCodecVars

\* Texts that no key minted: the empty text, a text without the prefix,
\* the prefix alone, a key id without '_', an empty payload, a payload
\* that is not base64, and payloads of zero and of one byte.
ForeignValues ==
    {<<>>,
     <<114, 101, 112, 111, 114, 116, 95, 107, 101, 121, 95, 49, 48, 48, 48, 48, 55, 95, 65, 65, 61, 61>>,
     ReportKeyPrefix,
     ReportKeyPrefix \o Display_u32(100007),
     ReportKeyPrefix \o Display_u32(100007) \o <<Underscore>>,
     ReportKeyPrefix \o Display_u32(100007) \o <<Underscore>>
         \o <<65, 95, 61, 61>>,
     ReportKeyPrefix \o Display_u32(100007) \o <<Underscore>>
         \o base64_encode(<<3>>),
     ReportKeyPrefix \o Display_u32(100007) \o <<Underscore>>
         \o base64_encode(<<0>>),
     ReportKeyPrefix \o Display_u32(100007) \o <<Underscore>>
         \o base64_encode(<<0, 200>>)}

\* Someone presents a text that no key minted.
PresentForeign ==
    /\ minted = NotMinted
    /\ tamper = NotTampered
    /\ \E text \in ForeignValues : presented' = text
    /\ tamper' = [region |-> "foreign", at |-> 0]
    /\ UNCHANGED <<minted, deployment, validated>>
    /\ UNCHANGED nonCodecVars

\* A deployment configured with `endpoint` validates the value presented.
ValidateValue ==
    /\ validated = NotValidated
    /\ minted # NotMinted \/ tamper.region = "foreign"
    /\ \E endpoint \in Endpoints :
           /\ deployment' = endpoint
           /\ validated' = validate_value(presented, endpoint)
    /\ UNCHANGED <<presented, minted, tamper>>
    /\ UNCHANGED nonCodecVars

CodecNext ==
    \/ GenerateValue
    \/ CreateReportKey
    \/ TamperByte
    \/ Truncate
    \/ TamperKeyId
    \/ PresentForeign
    \/ ValidateValue

\* The codec: a value is minted, possibly altered, and validated.
SpecCodec == Init /\ [][CodecNext]_vars

\* The value validated is as the key minted it.
Untampered ==
    /\ minted.by = "generate_value"
    /\ tamper = NotTampered
    /\ validated # NotValidated

\* C12: a value minted by generate_value for any account id, any key id
\* ReportKey::new draws and any endpoint validates, at a deployment
\* configured with the same endpoint, to exactly that account id and key
\* id, and fails at a deployment configured with another endpoint.
C12_RoundTrip ==
    (Untampered /\ minted.key_id \in 100000..999999) =>
        IF deployment = minted.endpoint
        THEN validated = ValidateOk(minted.account_id,
                                    Display_u32(minted.key_id))
        ELSE validated.tag = "Err"

\* C13: the value minted for tenant 42, key id 7 and endpoint "ep1"
\* validates to (42, 7) where the endpoint is "ep1" and fails where it
\* is "ep2".
C13_Scenario ==
    (/\ Untampered
     /\ minted.account_id = <<52, 50>>
     /\ minted.key_id = 7
     /\ minted.endpoint = <<101, 112, 49>>) =>
        /\ deployment = <<101, 112, 49>> =>
               validated = ValidateOk(<<52, 50>>, Display_u32(7))
        /\ deployment = <<101, 112, 50>> => validated.tag = "Err"

\* C13 as amended: with a key id of the range validate_value accepts,
\* 100007, the value minted for tenant 42 and endpoint "ep1" validates
\* to (42, 100007) where the endpoint is "ep1" and fails where it is
\* "ep2".
C13_ScenarioInRange ==
    (/\ Untampered
     /\ minted.account_id = <<52, 50>>
     /\ minted.key_id = 100007
     /\ minted.endpoint = <<101, 112, 49>>) =>
        /\ deployment = <<101, 112, 49>> =>
               validated = ValidateOk(<<52, 50>>,
                                      Display_u32(100007))
        /\ deployment = <<101, 112, 50>> =>
               /\ validated.tag = "Err"
               /\ validated.error = "Incorrect endpoint"

\* The value of the amended scenario, refused where the endpoint is
\* "ep2".
C13_Witness ==
    /\ Untampered
    /\ minted.account_id = <<52, 50>>
    /\ minted.key_id = 100007
    /\ minted.endpoint = <<101, 112, 49>>
    /\ deployment = <<101, 112, 50>>
    /\ validated.tag = "Err"

\* The value of the amended scenario, accepted where the endpoint is
\* "ep1".
C13_WitnessAccepted ==
    /\ Untampered
    /\ minted.account_id = <<52, 50>>
    /\ minted.key_id = 100007
    /\ minted.endpoint = <<101, 112, 49>>
    /\ deployment = <<101, 112, 49>>
    /\ validated.tag = "Ok"

\* C14: after a change of one byte of the nonce, of the ciphertext or of
\* the tag of a minted value, or of the key id in its prefix,
\* validate_value returns an error; and whatever was altered, it never
\* returns an account id other than the one the value was minted for.
C14_TamperRejected ==
    (minted.by = "generate_value" /\ validated # NotValidated) =>
        /\ tamper.region \in {"nonce", "ciphertext", "tag", "key_id"} =>
               validated.tag = "Err"
        /\ validated.tag = "Ok" => validated.account_id = minted.account_id

\* A value that validates as minted, refused by the decryption once a
\* byte of its ciphertext is changed.
C14_Witness ==
    /\ minted.by = "generate_value"
    /\ minted.key_id = 100007
    /\ minted.account_id = <<52, 50>>
    /\ deployment = minted.endpoint
    /\ tamper.region = "ciphertext"
    /\ validated.tag = "Err"
    /\ validated.error = "Failed to decrypt account ID"

\* The same for a rewritten key id that is in range.
C14_WitnessKeyId ==
    /\ minted.by = "generate_value"
    /\ minted.key_id = 100007
    /\ deployment = minted.endpoint
    /\ tamper.region = "key_id"
    /\ validated.tag = "Err"
    /\ validated.error = "Failed to decrypt account ID"

\* C15: validate_value ends, on every input, by returning an account id
\* and key id or an error; nothing makes it panic.
C15_FailsClosed ==
    validated # NotValidated => validated.tag \in {"Ok", "Err"}

\* C17: the report_key_value the create_report_key handler returns
\* validates, at the deployment that created it, to the creating
\* account's id and the id of the key record the handler created.
C17_CreatedValueValidates ==
    (/\ minted.by = "create_report_key"
     /\ validated # NotValidated
     /\ deployment = minted.endpoint
     /\ parse_u32(minted.account_id).ok) =>
        /\ minted.key_id \in DOMAIN report_key
        /\ validated = ValidateOk(minted.account_id,
                                  Display_u32(minted.key_id))

\* ------------------------------------------------ report keys: revocation

RECURSIVE u32_value(_)
\* The number a text of decimal digits spells.
u32_value(digits) ==
    IF digits = <<>>
    THEN 0
    ELSE u32_value(SubSeq(digits, 1, Len(digits) - 1)) * 10
             + (digits[Len(digits)] - 48)

\* Variant: the update applies to revoked records too.
RevokeWhereAlways(record) == TRUE

\* WHERE revoked_at IS NONE
RevokeWhere(record) == record.revoked_at = None

\* UPDATE $id SET revoked_at = time::now(), revoked_by = $revoked_by
\* WHERE revoked_at IS NONE, for the id of a record of the table: the
\* record the update returned, and the table after it.
revoke_report_key_query(table, report_key_id, revoked_by, time) ==
    IF RevokeWhere(table[report_key_id])
    THEN [result |-> Some(report_key_id),
          table |-> [table EXCEPT ![report_key_id] =
                        [@ EXCEPT !.revoked_at = Some(time),
                                  !.revoked_by = Some(revoked_by)]]]
    ELSE [result |-> None, table |-> table]

\* SELECT type::is::none(revoked_at) AS valid FROM $id: no row for an id
\* without a record.
report_key_is_valid_query(table, report_key_id) ==
    IF report_key_id \in DOMAIN table
    THEN Some([valid |-> table[report_key_id].revoked_at = None])
    ELSE None

\* SELECT * FROM report_key WHERE type::is::none(revoked_at): the ids of
\* the records returned.
list_report_keys_query(table) ==
    {id \in DOMAIN table : table[id].revoked_at = None}

\* GET /account/:account_id/report_api_keys
list_report_keys ==
    /\ reply' = [ReplyOk("list", 0) EXCEPT
                    !.report_keys = list_report_keys_query(report_key)]
    /\ UNCHANGED <<report_key, now>>

\* DELETE of a report key: the handler parses the id of the route, runs
\* the update in its own transaction and answers not found when the
\* update returned no record.
revoke_report_key(principal, report_key_id_string) ==
    LET parsed == parse_u32(report_key_id_string)
    IN  /\ IF ~parsed.ok
           THEN /\ reply' = ReplyErr("revoke", 0, "Invalid route key ID")
                /\ UNCHANGED report_key
           ELSE LET report_key_id == u32_value(parsed.digits)
                    revoked == revoke_report_key_query(
                                   report_key, report_key_id, principal, now)
                IN  /\ report_key' = revoked.table
                    /\ reply' =
                           IF revoked.result = None
                           THEN ReplyErr("revoke", report_key_id,
                                         "Report key not found")
                           ELSE ReplyOk("revoke", report_key_id)
        /\ UNCHANGED now

\* The report key middleware: the credential of the request is validated
\* at this deployment.
report_api_key_auth(authorization, env_endpoint) ==
    validate_value(authorization, env_endpoint)

\* The activity check of a report key credential: the key's record
\* exists in the tenant database and is not revoked.
ReportApiKeyAuth_validate(table, key_id) ==
    report_key_is_valid_query(table, key_id) = Some([valid |-> TRUE])

\* The db middleware: the account of the credential is looked up, its
\* database is opened, the credential is checked against it, and only
\* then the handler runs.  The outcome is "next" or the error returned.
db(accounts, table, account_id, key_id) ==
    IF account_id \notin accounts
    THEN "Account record not found"
    ELSE IF ~ReportApiKeyAuth_validate(table, key_id)
    THEN "Unauthorized"
    ELSE "next"

\* POST /report through its two middlewares.
report_route(accounts, authorization, env_endpoint, req) ==
    LET auth == validated'
    IN  /\ deployment' = env_endpoint
        /\ validated' = report_api_key_auth(authorization, env_endpoint)
        /\ IF auth.tag # "Ok"
           THEN /\ reply' = ReplyErr("report", 0, "Unauthorized")
                /\ UNCHANGED ingestVars
           ELSE LET key_id == u32_value(auth.key_id)
                    outcome == db(accounts, report_key, auth.account_id,
                                  key_id)
                IN  IF outcome # "next"
                    THEN /\ reply' = ReplyErr("report", key_id, outcome)
                         /\ UNCHANGED ingestVars
                    ELSE /\ reply' = ReplyOk("report", key_id)
                         /\ report(req, 0)
        /\ UNCHANGED <<report_key, now>>

\* ---------------------------------------- report keys: specification

\* The clock of the database runs up to this time.
MaxClock == 2

\* The endpoint of the deployment, "ep1".
KeysEndpoint == <<101, 112, 49>>

\* The account whose report keys these are, "42".
KeysAccount == <<52, 50>>

\* The accounts that have a record: "42".  "43" has none.
AccountRecords == {KeysAccount}

CredentialAccounts == {KeysAccount, <<52, 51>>}

\* An id ReportKey::new draws.
RevocableKeyIds == {100007}

\* Ids a route names: the ids of keys, and a text that is no number.
RouteKeyIds == {Display_u32(id) : id \in RevocableKeyIds} \cup {<<120>>}

KeysNonce == [i \in 1..NonceLen |-> i]

KeysRequest == ObservationRequest(1, 1)

Tick ==
    /\ now < MaxClock
    /\ now' = now + 1
    /\ UNCHANGED <<report_key, reply>>
    /\ UNCHANGED <<ingestVars, codecVars, otherVars>>

KeysCreate ==
    \E id \in RevocableKeyIds :
        create_report_key(KeysAccount, id, None, "u1", KeysEndpoint,
                          KeysNonce)

KeysList ==
    /\ list_report_keys
    /\ UNCHANGED <<ingestVars, codecVars, otherVars>>

\* A user of the dashboard revokes the key a route names.
RevokeOf(report_key_id_string) ==
    /\ parse_u32(report_key_id_string).ok =>
           u32_value(report_key_id_string) \in DOMAIN report_key
    /\ \E principal \in Users :
           revoke_report_key(principal, report_key_id_string)
    /\ UNCHANGED <<ingestVars, codecVars, otherVars>>

KeysRevoke == \E text \in RouteKeyIds : RevokeOf(text)

\* An agent reports with the credential key `id` mints for an account.
ReportWith(id, account_id) ==
    /\ minted' = [by |-> "generate_value", account_id |-> account_id,
                  key_id |-> id, endpoint |-> KeysEndpoint,
                  nonce |-> KeysNonce]
    /\ presented' = generate_value(id, account_id, KeysEndpoint, KeysNonce)
    /\ report_route(AccountRecords, presented', KeysEndpoint, KeysRequest)
    /\ UNCHANGED <<tamper, otherVars>>

KeysReport ==
    \E id \in RevocableKeyIds, account_id \in CredentialAccounts :
        ReportWith(id, account_id)

KeysNext ==
    \/ Tick
    \/ KeysCreate
    \/ KeysList
    \/ KeysRevoke
    \/ KeysReport

\* Report keys of one tenant: created, listed, revoked and used to report.
SpecKeys == Init /\ [][KeysNext]_vars

Revoked(k) == k \in DOMAIN report_key /\ report_key[k].revoked_at # None

\* C16: once key k is revoked, every step leaves its revoked_at and
\* revoked_by as they are and the activity lookup for k answers not
\* valid; a further revoke of k changes no record and answers not found;
\* and a report carrying the credential of k is refused by the db
\* middleware, the handler not having run.
C16_RevocationPermanent ==
    [][\A k \in RevocableKeyIds :
           Revoked(k) =>
               /\ k \in DOMAIN report_key'
               /\ report_key'[k].revoked_at = report_key[k].revoked_at
               /\ report_key'[k].revoked_by = report_key[k].revoked_by
               /\ report_key_is_valid_query(report_key', k)
                      = Some([valid |-> FALSE])
               /\ RevokeOf(Display_u32(k)) =>
                      /\ report_key' = report_key
                      /\ reply' = ReplyErr("revoke", k,
                                           "Report key not found")
               /\ ReportWith(k, KeysAccount) =>
                      /\ validated'.tag = "Ok"
                      /\ reply' = ReplyErr("report", k, "Unauthorized")
                      /\ UNCHANGED ingestVars]_vars

\* A key revoked by one user at one time, and the answer to another
\* user's later revoke of it.
C16_Witness ==
    /\ Revoked(100007)
    /\ report_key[100007].revoked_at = Some(1)
    /\ report_key[100007].revoked_by = Some("u1")
    /\ now = MaxClock
    /\ reply = ReplyErr("revoke", 100007, "Report key not found")

\* A report with the credential of a key refused after the key's
\* revocation, the same credential having been accepted before it.
C16_WitnessReport ==
    /\ Revoked(100007)
    /\ graph # EmptyGraph
    /\ validated = ValidateOk(KeysAccount, Display_u32(100007))
    /\ reply = ReplyErr("report", 100007, "Unauthorized")

\* ------------------------------------------------ tenant databases

\* The session a handle works in.  Clones of a Surreal<Db> share the
\* session of the connection they were cloned from.
SessionOf(task_id, handle) == <<handle, 0>>

\* The namespace a request selects: format!("a{archodex_account_id}")
\* in db_for_customer_data_account, the account id itself in lib's db.
NamespaceFor(entry, account_id) ==
    IF entry = "db" THEN <<"", account_id>> ELSE <<"a", account_id>>

\* use_ns on a handle: the session of the handle works in the namespace.
use_ns(table, task_id, handle, ns) ==
    Put(table, SessionOf(task_id, handle), ns)

\* The namespace a statement sent over the handle runs in.
NamespaceOf(table, task_id, handle) ==
    IF SessionOf(task_id, handle) \in DOMAIN table
    THEN Some(table[SessionOf(task_id, handle)])
    ELSE None

\* The next handle Surreal::new yields.
NewHandle == Cardinality(DOMAIN dbs_by_aws_account_id) + Len(DB) + 1

\* A request of an account arrives at one of the two entry points.
Arrive(task_id, entry, account_id, customer_data_aws_account_id) ==
    /\ task[task_id].pc = "idle"
    /\ task' = [task EXCEPT ![task_id] =
                   [pc |-> "read", entry |-> entry,
                    account_id |-> account_id,
                    location |-> customer_data_aws_account_id,
                    db |-> 0]]
    /\ UNCHANGED <<dbs_by_aws_account_id, DB, session, executed>>

\* db_for_customer_data_account under the read lock: the handle cached
\* for the location is cloned, or the lock is dropped.
ReadCache(task_id) ==
    LET t == task[task_id]
    IN  /\ t.pc = "read"
        /\ t.entry = "db_for_customer_data_account"
        /\ task' = [task EXCEPT ![task_id] =
                       IF t.location \in DOMAIN dbs_by_aws_account_id
                       THEN [t EXCEPT !.pc = "use_ns",
                                !.db = dbs_by_aws_account_id[t.location]]
                       ELSE [t EXCEPT !.pc = "write"]]
        /\ UNCHANGED <<dbs_by_aws_account_id, DB, session, executed>>

\* db_for_customer_data_account under the write lock: the cache is
\* looked up again, and a handle is created and inserted when the
\* location has none.
WriteCache(task_id) ==
    LET t == task[task_id]
    IN  /\ t.pc = "write"
        /\ IF t.location \in DOMAIN dbs_by_aws_account_id
           THEN /\ task' = [task EXCEPT ![task_id] =
                               [t EXCEPT !.pc = "use_ns",
                                    !.db = dbs_by_aws_account_id[t.location]]]
                /\ UNCHANGED dbs_by_aws_account_id
           ELSE /\ dbs_by_aws_account_id' =
                       Put(dbs_by_aws_account_id, t.location, NewHandle)
                /\ task' = [task EXCEPT ![task_id] =
                               [t EXCEPT !.pc = "use_ns", !.db = NewHandle]]
        /\ UNCHANGED <<DB, session, executed>>

\* lib's db: the one handle of the process, created by the first caller.
GetOrInitDB(task_id) ==
    LET t == task[task_id]
    IN  /\ t.pc = "read"
        /\ t.entry = "db"
        /\ DB' = IF DB = None THEN Some(NewHandle) ELSE DB
        /\ task' = [task EXCEPT ![task_id] =
                       [t EXCEPT !.pc = "use_ns", !.db = Unwrap(DB')]]
        /\ UNCHANGED <<dbs_by_aws_account_id, session, executed>>

\* db.use_ns(...).use_db("resources").await
UseNs(task_id) ==
    LET t == task[task_id]
    IN  /\ t.pc = "use_ns"
        /\ session' = use_ns(session, task_id, t.db,
                             NamespaceFor(t.entry, t.account_id))
        /\ task' = [task EXCEPT ![task_id] = [t EXCEPT !.pc = "query"]]
        /\ UNCHANGED <<dbs_by_aws_account_id, DB, executed>>

\* The request sends its statements over the handle it was given.
Query(task_id) ==
    LET t == task[task_id]
    IN  /\ t.pc = "query"
        /\ executed' = executed \cup
               {[entry |-> t.entry, account_id |-> t.account_id,
                 ns |-> Unwrap(NamespaceOf(session, task_id, t.db))]}
        /\ task' = [task EXCEPT ![task_id] = [t EXCEPT !.pc = "done"]]
        /\ UNCHANGED <<dbs_by_aws_account_id, DB, session>>

\* ------------------------------------- tenant databases: specification

\* Accounts and the AWS account their service data lies in: the first
\* two share one.
ServiceDataLocations ==
    {<<"1000000001", "111111111111">>, <<"1000000002", "111111111111">>,
     <<"1000000003", "222222222222">>}

EntryPoints == {"db_for_customer_data_account", "db"}

TenantArrive ==
    /\ \E task_id \in Tasks, entry \in EntryPoints,
          location \in ServiceDataLocations :
           Arrive(task_id, entry, location[1], location[2])
    /\ UNCHANGED nonTenancyVars

TenantReadCache ==
    /\ \E task_id \in Tasks : ReadCache(task_id)
    /\ UNCHANGED nonTenancyVars

TenantWriteCache ==
    /\ \E task_id \in Tasks : WriteCache(task_id)
    /\ UNCHANGED nonTenancyVars

TenantGetOrInitDB ==
    /\ \E task_id \in Tasks : GetOrInitDB(task_id)
    /\ UNCHANGED nonTenancyVars

TenantUseNs ==
    /\ \E task_id \in Tasks : UseNs(task_id)
    /\ UNCHANGED nonTenancyVars

TenantQuery ==
    /\ \E task_id \in Tasks : Query(task_id)
    /\ UNCHANGED nonTenancyVars

TenantNext ==
    \/ TenantArrive
    \/ TenantReadCache
    \/ TenantWriteCache
    \/ TenantGetOrInitDB
    \/ TenantUseNs
    \/ TenantQuery

\* Concurrent requests of several tenants opening their databases.
SpecTenants == Init /\ [][TenantNext]_vars

\* C18: whatever the interleaving of concurrent requests, the statements
\* of a request run in the namespace of the request's own account, also
\* when the requests of two accounts were given the same cached handle.
C18_TenantIsolation ==
    \A e \in executed : e.ns = NamespaceFor(e.entry, e.account_id)

\* Two requests of different accounts holding the same handle, both past
\* use_ns, with the statements of one run in the namespace of the other.
C18_Crossed ==
    \E e \in executed :
        /\ e.entry = "db_for_customer_data_account"
        /\ e.ns # NamespaceFor(e.entry, e.account_id)
        /\ \E p, q \in Tasks :
               /\ task[p].db = task[q].db
               /\ task[p].account_id = e.account_id
               /\ task[q].account_id # e.account_id
               /\ e.ns = NamespaceFor(task[q].entry, task[q].account_id)

\* ------------------------------------------------ the request boundary
\* A JSON object is a function from the names of its members to their
\* values, a JSON array a sequence.

\* Variant: members no field names are let through.
DeniesUnknownFieldsNever(object, fields) == TRUE

\* #[serde(deny_unknown_fields)]: every member names a field.
DeniesUnknownFields(object, fields) == DOMAIN object \subseteq fields

\* The fields that are no Option have a member each.
HasFields(object, required) == required \subseteq DOMAIN object

\* The value of an Option field.
OptionField(object, name) ==
    IF name \in DOMAIN object THEN Some(object[name]) ELSE None

ResourceIdFields == {"type", "id"}

ResourceIdOk(object) ==
    /\ DeniesUnknownFields(object, ResourceIdFields)
    /\ HasFields(object, ResourceIdFields)

ResourceIdOf(object) == <<object["type"], object["id"]>>

\* The fields of ResourceTreeNode, those of the flattened id included.
ResourceTreeNodeFields ==
    ResourceIdFields \cup {"globally_unique", "first_seen_at",
                           "last_seen_at", "attributes", "contains"}

RECURSIVE ResourceTreeNodeOk(_)
ResourceTreeNodeOk(object) ==
    /\ DeniesUnknownFields(object, ResourceTreeNodeFields)
    /\ HasFields(object, ResourceIdFields \cup
                             {"first_seen_at", "last_seen_at"})
    /\ "contains" \in DOMAIN object =>
           \A i \in DOMAIN object["contains"] :
               ResourceTreeNodeOk(object["contains"][i])

RECURSIVE ResourceTreeNodeOf(_)
ResourceTreeNodeOf(object) ==
    Node(ResourceIdOf(object),
         OptionField(object, "globally_unique"),
         object["first_seen_at"],
         object["last_seen_at"],
         OptionField(object, "attributes"),
         IF "contains" \in DOMAIN object
         THEN Some([i \in DOMAIN object["contains"] |->
                       ResourceTreeNodeOf(object["contains"][i])])
         ELSE None)

EventFields == {"type", "first_seen_at", "last_seen_at"}

EventOk(object) ==
    /\ DeniesUnknownFields(object, EventFields)
    /\ HasFields(object, EventFields)

EventOf(object) ==
    [type |-> object["type"], first_seen_at |-> object["first_seen_at"],
     last_seen_at |-> object["last_seen_at"]]

ResourceIdsOk(array) ==
    \A i \in DOMAIN array : \A j \in DOMAIN array[i] :
        ResourceIdOk(array[i][j])

ResourceIdsOf(array) ==
    [i \in DOMAIN array |->
        [j \in DOMAIN array[i] |-> ResourceIdOf(array[i][j])]]

EventsReportFields == {"principals", "resources", "events"}

EventsReportOk(object) ==
    /\ DeniesUnknownFields(object, EventsReportFields)
    /\ HasFields(object, EventsReportFields)
    /\ ResourceIdsOk(object["principals"])
    /\ ResourceIdsOk(object["resources"])
    /\ \A i \in DOMAIN object["events"] : EventOk(object["events"][i])

EventsReportOf(object) ==
    [principals |-> ResourceIdsOf(object["principals"]),
     resources  |-> ResourceIdsOf(object["resources"]),
     events     |-> [i \in DOMAIN object["events"] |->
                        EventOf(object["events"][i])]]

RequestFields == {"resources", "event_reports"}

RequestOk(object) ==
    /\ DeniesUnknownFields(object, RequestFields)
    /\ HasFields(object, RequestFields)
    /\ \A i \in DOMAIN object["resources"] :
           ResourceTreeNodeOk(object["resources"][i])
    /\ \A i \in DOMAIN object["event_reports"] :
           EventsReportOk(object["event_reports"][i])

RequestOf(object) ==
    [resources |-> [i \in DOMAIN object["resources"] |->
                       ResourceTreeNodeOf(object["resources"][i])],
     event_reports |-> [i \in DOMAIN object["event_reports"] |->
                           EventsReportOf(object["event_reports"][i])]]

\* Json(req): Json<Request>: the body deserialized into a Request, or
\* the rejection of the extractor.
Json(json_body) ==
    IF RequestOk(json_body)
    THEN [ok |-> TRUE, req |-> RequestOf(json_body)]
    ELSE [ok |-> FALSE, req |-> NoRequest]

\* The response to a body the extractor rejected.
JsonRejection == [tag |-> "Rejected", error |-> ResultOk]

\* POST /report with a body: the handler runs on the Request extracted,
\* and not at all when the extractor rejects.
report_body(json_body) ==
    LET extracted == Json(json_body)
    IN  /\ body' = Some(json_body)
        /\ IF extracted.ok
           THEN report(extracted.req, 0)
           ELSE /\ response' = JsonRejection
                /\ UNCHANGED <<graph, prevGraph, request, statements,
                               results>>

\* ------------------------------------ the request boundary: specification

Without(object, name) == [n \in DOMAIN object \ {name} |-> object[n]]

\* What a body has wrong, and where: nothing; a member "extra" in the
\* object of a level; a field missing from the object of a level; and,
\* wrong in nothing, an attribute named "extra".
Defects ==
    {<<"none", "", "">>, <<"attribute", "node", "">>}
    \cup {<<"unknown", level, "">> :
            level \in {"request", "node", "child", "principal", "resource",
                       "events_report", "event"}}
    \cup {<<"missing", level, name>> :
            level \in {"node", "child", "event"},
            name \in {"first_seen_at", "last_seen_at"}}
    \cup {<<"missing", "child", "id">>}

\* The object of a level with the defect, when the defect is there.
Mangle(object, level, defect) ==
    IF defect[2] # level THEN object
    ELSE IF defect[1] = "unknown" THEN Put(object, "extra", 0)
    ELSE IF defect[1] = "missing" THEN Without(object, defect[3])
    ELSE IF defect[1] = "attribute"
    THEN Put(object, "attributes", {<<"extra", "v1">>})
    ELSE object

JsonId(id, level, defect) ==
    Mangle([type |-> id[1], id |-> id[2]], level, defect)

\* The body of ObservationRequest(f, l), with a defect.
ObservationBody(f, l, defect) ==
    LET child == Mangle([type |-> Secret[1], id |-> Secret[2],
                         first_seen_at |-> f, last_seen_at |-> l],
                        "child", defect)
        node == Mangle([type |-> Host[1], id |-> Host[2],
                        first_seen_at |-> f, last_seen_at |-> l,
                        contains |-> <<child>>],
                       "node", defect)
        event == Mangle([type |-> "read", first_seen_at |-> f,
                         last_seen_at |-> l],
                        "event", defect)
        events_report ==
            Mangle([principals |-> << <<JsonId(Host, "principal", defect)>> >>,
                    resources |-> << <<JsonId(Host, "none", defect),
                                       JsonId(Secret, "resource", defect)>> >>,
                    events |-> <<event>>],
                   "events_report", defect)
    IN  Mangle([resources |-> <<node>>, event_reports |-> <<events_report>>],
               "request", defect)

ReportBody ==
    /\ \E pair \in SeenPairs, defect \in Defects :
           report_body(ObservationBody(pair[1], pair[2], defect))
    /\ UNCHANGED nonBoundaryVars

BoundaryNext == ReportBody

\* Agents posting bodies, well-formed and not.
SpecBoundary == Init /\ [][BoundaryNext]_vars

RECURSIVE NodeMalformed(_)
\* A node with a member that is no field or without one of its
\* timestamps, or holding such a node.
NodeMalformed(object) ==
    \/ DOMAIN object \ ResourceTreeNodeFields # {}
    \/ {"first_seen_at", "last_seen_at"} \ DOMAIN object # {}
    \/ /\ "contains" \in DOMAIN object
       /\ \E i \in DOMAIN object["contains"] :
              NodeMalformed(object["contains"][i])

EventMalformed(object) ==
    \/ DOMAIN object \ EventFields # {}
    \/ {"first_seen_at", "last_seen_at"} \ DOMAIN object # {}

IdsMalformed(array) ==
    \E i \in DOMAIN array : \E j \in DOMAIN array[i] :
        DOMAIN array[i][j] \ ResourceIdFields # {}

EventsReportMalformed(object) ==
    \/ DOMAIN object \ EventsReportFields # {}
    \/ IdsMalformed(object["principals"])
    \/ IdsMalformed(object["resources"])
    \/ \E i \in DOMAIN object["events"] : EventMalformed(object["events"][i])

\* A body with an unknown field at some level, or with a node or an
\* event that lacks first_seen_at or last_seen_at.
Malformed(object) ==
    \/ DOMAIN object \ RequestFields # {}
    \/ \E i \in DOMAIN object["resources"] :
           NodeMalformed(object["resources"][i])
    \/ \E i \in DOMAIN object["event_reports"] :
           EventsReportMalformed(object["event_reports"][i])

\* C19: a request whose body is malformed is answered with the
\* rejection of the extractor; the handler compiled no statement for it
\* and the graph is as it was.
C19_MalformedRejected ==
    [][(IsSome(body') /\ Malformed(Unwrap(body'))) =>
           /\ response' = JsonRejection
           /\ UNCHANGED <<graph, prevGraph, request, statements, results>>]_vars

\* A malformed body rejected after a request that was committed, whose
\* statements and graph are still in place.
C19_Witness ==
    /\ IsSome(body)
    /\ Malformed(Unwrap(body))
    /\ response = JsonRejection
    /\ statements # <<>>
    /\ graph # EmptyGraph

\* The same for a body whose one defect is an unknown member of an id in
\* an events report.
C19_WitnessNested ==
    /\ IsSome(body)
    /\ IdsMalformed(Unwrap(body)["event_reports"][1]["principals"])
    /\ response = JsonRejection
    /\ graph # EmptyGraph

\* ---------------------------------------------------------------- queries

\* BEGIN READONLY
BeginReadonlyStatement == [kind |-> "begin", readonly |-> TRUE]

\* $<param> = []
SetEmpty(param) == [kind |-> "set", param |-> param]

\* const BEGIN: "BEGIN READONLY; $resources = []; $events = [];"
BEGIN == <<BeginReadonlyStatement, SetEmpty("resources"), SetEmpty("events")>>

\* The object the query returns: the resources, the events and the
\* global containers of the ids they name.
ReturnObject ==
    [kind |-> "return",
     fields |-> {"resources", "events", "global_containers"}]

\* Variant: the transaction is left open.
FINISH_without_commit == <<ReturnObject>>

\* const FINISH: the object returned, then COMMIT.
FINISH == <<ReturnObject, CommitStatement>>

\* A statement that reads records of a table into a parameter.
Fetch(param, table, where) ==
    [kind |-> "fetch", param |-> param, from |-> table, where |-> where]

\* Resource::get_all()
Resource_get_all == Fetch("resources", "resource", <<"all">>)

\* Event::get_all()
Event_get_all == Fetch("events", "event", <<"all">>)

\* Resource::add_resources_of_type(type)
Resource_add_resources_of_type(type) ==
    Fetch("resources", "resource", <<"type", type>>)

\* Event::add_events_going_to_resources()
Event_add_events_going_to_resources ==
    Fetch("events", "event", <<"out", "resources">>)

\* Event::add_events_going_from_resources()
Event_add_events_going_from_resources ==
    Fetch("events", "event", <<"in", "resources">>)

\* Variant: the secrets query fetches its events before its resources.
query_statements_events_first(type) ==
    IF type = "all"
    THEN BEGIN \o <<Resource_get_all, Event_get_all>> \o FINISH
    ELSE BEGIN
             \o <<Event_add_events_going_to_resources,
                  Event_add_events_going_from_resources,
                  Resource_add_resources_of_type("Secret"),
                  Resource_add_resources_of_type("Secret Value")>>
             \o FINISH

\* let query = match r#type { .. }: the statements of a query.
query_statements(type) ==
    IF type = "all"
    THEN BEGIN \o <<Resource_get_all, Event_get_all>> \o FINISH
    ELSE BEGIN
             \o <<Resource_add_resources_of_type("Secret"),
                  Resource_add_resources_of_type("Secret Value"),
                  Event_add_events_going_to_resources,
                  Event_add_events_going_from_resources>>
             \o FINISH

RECURSIVE SeqOf(_)
\* The elements of a set in the order the store yields them.
SeqOf(S) ==
    IF S = {}
    THEN <<>>
    ELSE LET x == CHOOSE y \in S : TRUE
         IN  <<x>> \o SeqOf(S \ {x})

\* The elements of an array.
Range(array) == {array[i] : i \in DOMAIN array}

RECURSIVE distinct(_)
\* array::distinct: the first occurrence of every element, in order.
distinct(array) ==
    IF array = <<>>
    THEN <<>>
    ELSE LET front == distinct(SubSeq(array, 1, Len(array) - 1))
             last  == array[Len(array)]
         IN  IF last \in Range(front) THEN front ELSE Append(front, last)

\* The records of the resource table and of the event table.
ResourceRecords(store) == {[id |-> id] : id \in DOMAIN store.resource}

EventRecords(store) ==
    {[in |-> key[1], out |-> key[2], type |-> key[3]] :
        key \in DOMAIN store.event}

\* The type of a resource: the type of the last part of its id.
ResourceType(record) == record.id[Len(record.id)][1]

\* The records a fetch selects, given the parameters set so far.
Select(store, s, params) ==
    LET ids == {r.id : r \in Range(params.resources)}
    IN  CASE s.where[1] = "all" ->
                IF s.from = "resource"
                THEN ResourceRecords(store) ELSE EventRecords(store)
          [] s.where[1] = "type" ->
                {r \in ResourceRecords(store) : ResourceType(r) = s.where[2]}
          [] s.where[1] = "out" ->
                {e \in EventRecords(store) : e.out \in ids}
          [] s.where[1] = "in" ->
                {e \in EventRecords(store) : e.in \in ids}

\* Variant: the out endpoints of the events are left out.
ClosureIdsWithoutOut(resources, events) ==
    distinct([i \in DOMAIN resources |-> resources[i].id]
                 \o [i \in DOMAIN events |-> events[i].in])

\* array::concat($resources.map(|$resource| $resource.id),
\*               $events.map(|$event| $event.in),
\*               $events.map(|$event| $event.out)).distinct()
ClosureIds(resources, events) ==
    distinct([i \in DOMAIN resources |-> resources[i].id]
                 \o [i \in DOMAIN events |-> events[i].in]
                 \o [i \in DOMAIN events |-> events[i].out])

RECURSIVE Containers(_, _, _)
\* The ids reached from the ids of S by walking containment edges
\* upward, in at most n steps.
Containers(store, S, n) ==
    LET up == {edge[1] : edge \in {e \in DOMAIN store.contains : e[2] \in S}}
    IN  IF n = 0 \/ up \subseteq S
        THEN S
        ELSE Containers(store, S \cup up, n - 1)

\* fn::fetch_global_containers(ids): the resources that contain, directly
\* or not, a resource the ids name.
fetch_global_containers(store, ids) ==
    LET reached == Containers(store, Range(ids), Cardinality(DOMAIN store.contains))
    IN  SeqOf({[id |-> id] :
                  id \in (reached \ Range(ids)) \cap DOMAIN store.resource})

\* One statement of a query evaluated: a parameter emptied, the records
\* a fetch selects added to its parameter, or the object returned.  log
\* holds what was evaluated, in order.
EvalStatement(store, params, s) ==
    CASE s.kind = "set" ->
            [params EXCEPT ![s.param] = <<>>,
                           !.log = Append(@, <<"set", s.param>>)]
      [] s.kind = "fetch" ->
            [params EXCEPT ![s.param] = @ \o SeqOf(Select(store, s, params)),
                           !.log = Append(@, <<"fetch", s.param>>)]
      [] s.kind = "return" ->
            LET ids == ClosureIds(params.resources, params.events)
            IN  [params EXCEPT
                    !.ids = ids,
                    !.global_containers = fetch_global_containers(store, ids),
                    !.returned = TRUE,
                    !.log = Append(@, <<"closure", "global_containers">>)]
      [] OTHER -> params

RECURSIVE EvalStatements(_, _, _)
EvalStatements(store, params, stmts) ==
    IF stmts = <<>>
    THEN params
    ELSE EvalStatements(store, EvalStatement(store, params, Head(stmts)),
                        Tail(stmts))

\* res.take(res.num_statements() - 1): the object of the last result as
\* a QueryResponse.  events is an Option and the object always names it.
QueryResponse(params) ==
    [resources |-> params.resources,
     global_containers |-> params.global_containers,
     events |-> Some(params.events)]

\* The fields of a QueryResponse that Json serializes: global_containers
\* unless Vec::is_empty, events unless Option::is_none.
Serialize(query_response) ==
    LET fields ==
            {"resources"}
                \cup (IF query_response.global_containers = <<>>
                      THEN {} ELSE {"global_containers"})
                \cup (IF query_response.events = None
                      THEN {} ELSE {"events"})
    IN  [name \in fields |->
            IF name = "events"
            THEN Unwrap(query_response.events)
            ELSE query_response[name]]

\* GET /account/:account_id/query/:type: the handler sends the
\* statements, awaits them and checks the response.
query(type, failAt) ==
    LET stmts == query_statements(type)
        ex    == ExecQuery(graph, stmts, failAt)
    IN  /\ failAt \in 0..NumResults(stmts)
        /\ queried' = type
        /\ fetched' = IF failAt = 0
                      THEN EvalStatements(graph, NoParams, stmts)
                      ELSE NoParams
        /\ answer' = IF failAt = 0
                     THEN Serialize(QueryResponse(fetched'))
                     ELSE <<>>
        /\ statements' = stmts
        /\ results' = ex.results
        /\ response' = check_first_real_error(ex.results)
        /\ graph' = ex.db
        /\ prevGraph' = graph
        /\ UNCHANGED request

\* ------------------------------------------------- queries: specification

\* QueryType
QueryTypes == {"all", "secrets"}

SecretValue == <<"Secret Value", "v1">>

Vault == <<"Vault", "w1">>

\* A report of the resources of a forest and of one event from a
\* principal to a resource.
GraphRequest(forest, principal, resource, type) ==
    [resources |-> forest,
     event_reports |->
        <<[principals |-> <<principal>>,
           resources  |-> <<resource>>,
           events     |-> <<[type |-> type, first_seen_at |-> 1,
                             last_seen_at |-> 1]>>]>>]

\* What the agents of the tenant report: a host holding a secret it
\* reads, the value of the secret that the secret holds, a vault that a
\* secret unlocks, and a vault that the host pings.
QueryRequests ==
    {ObservationRequest(1, MaxTime),
     GraphRequest(<<Node(Host, None, 1, 1, None,
                     Some(<<Node(Secret, None, 1, 1, None,
                         Some(<<Node(SecretValue, None, 1, 1, None,
                                     None)>>))>>))>>,
                  <<Host, Secret>>, <<Host, Secret, SecretValue>>, "holds"),
     GraphRequest(<<Node(Vault, None, 1, 1, None, None)>>,
                  <<Host, Secret>>, <<Vault>>, "unlocks"),
     GraphRequest(<<Node(Vault, None, 1, 1, None, None)>>,
                  <<Host>>, <<Vault>>, "pings")}

QueryIngest ==
    /\ \E req \in QueryRequests :
           \E failAt \in {0, 1} : report(req, failAt)
    /\ UNCHANGED nonIngestVars

\* A query of a type, every statement succeeding or one failing.
QueryOf(type) ==
    /\ \E failAt \in 0..NumResults(query_statements(type)) :
           query(type, failAt)
    /\ UNCHANGED <<codecVars, keyVars, tenancyVars, boundaryVars, laterVars>>

QueryAny == \E type \in QueryTypes : QueryOf(type)

QueryNext == QueryIngest \/ QueryAny

\* A tenant's graph, reported to and queried.
SpecQuery == Init /\ [][QueryNext]_vars

\* The statements between the first and the last.
Inner(stmts) == SubSeq(stmts, 2, Len(stmts) - 1)

\* C20: the statements of a query of either type begin with BEGIN
\* READONLY and end with COMMIT, no statement between the two begins or
\* ends a transaction, the fetches and the returned object lie between
\* them, and the graph after the query is the graph before it.
C20_ReadOnlyTransaction ==
    [][\A type \in QueryTypes :
           QueryOf(type) =>
               /\ Head(statements') = BeginReadonlyStatement
               /\ statements'[Len(statements')] = CommitStatement
               /\ \A i \in DOMAIN Inner(statements') :
                      ~IsControl(Inner(statements')[i])
               /\ \E i \in DOMAIN Inner(statements') :
                      Inner(statements')[i].kind = "fetch"
               /\ \E i \in DOMAIN Inner(statements') :
                      Inner(statements')[i] = ReturnObject
               /\ graph' = graph]_vars

\* A secrets query answered from a graph that holds records.
C20_Witness ==
    /\ queried = "secrets"
    /\ statements = query_statements("secrets")
    /\ response.tag = "Ok"
    /\ graph # EmptyGraph
    /\ graph = prevGraph

\* A query one of whose statements failed.
C20_WitnessFailed ==
    /\ queried = "all"
    /\ statements = query_statements("all")
    /\ response.tag = "Err"
    /\ graph # EmptyGraph
    /\ graph = prevGraph

\* ----------------------------------------------- queries: what is returned

\* The ids of the tenant's resources whose type is one of the types.
ResourcesOfTypes(store, types) ==
    {id \in DOMAIN store.resource : id[Len(id)][1] \in types}

\* The positions of the log at which a parameter was fetched into.
FetchesInto(log, param) ==
    {i \in DOMAIN log : log[i] = <<"fetch", param>>}

\* C21: a secrets query that succeeds returns as resources exactly the
\* tenant's resources of type "Secret" or "Secret Value" and as events
\* exactly the event edges that go to or go from one of these resources,
\* and every fetch of events comes after every fetch of resources.
C21_SecretsQuery ==
    [][(QueryOf("secrets") /\ fetched'.returned) =>
          LET matched == ResourcesOfTypes(graph, {"Secret", "Secret Value"})
          IN  /\ {r.id : r \in Range(answer'.resources)} = matched
              /\ Range(answer'.events)
                    = {e \in EventRecords(graph) :
                          e.in \in matched \/ e.out \in matched}
              /\ \A i \in FetchesInto(fetched'.log, "resources") :
                     \A j \in FetchesInto(fetched'.log, "events") : i < j]_vars

\* A secrets query returned both kinds of secret, an edge going to a
\* secret from another resource and an edge going from a secret to
\* another resource, and left out an edge between two other resources.
C21_Witness ==
    /\ queried = "secrets"
    /\ fetched.returned
    /\ {r.id : r \in Range(answer.resources)}
          = {<<Host, Secret>>, <<Host, Secret, SecretValue>>}
    /\ [in |-> <<Host>>, out |-> <<Host, Secret>>, type |-> "read"]
          \in Range(answer.events)
    /\ [in |-> <<Host, Secret>>, out |-> <<Vault>>, type |-> "unlocks"]
          \in Range(answer.events)
    /\ <<<<Host>>, <<Vault>>, "pings">> \in DOMAIN graph.event
    /\ [in |-> <<Host>>, out |-> <<Vault>>, type |-> "pings"]
          \notin Range(answer.events)

\* C22: in the response of a query that succeeds, the events field is
\* omitted when the event set is empty, the global_containers field is
\* omitted when the closure is empty, and resources is always present.
C22_EmptyFieldsOmitted ==
    fetched.returned =>
        /\ "resources" \in DOMAIN answer
        /\ fetched.events = <<>> => "events" \notin DOMAIN answer
        /\ fetched.global_containers = <<>>
              => "global_containers" \notin DOMAIN answer

\* C27: the ids handed to the global-container closure are, without
\* duplicates, the ids of the returned resources together with the in
\* endpoints and the out endpoints of the returned events, and the
\* closure is computed after every fetch of resources and of events.
C27_ClosureInput ==
    fetched.returned =>
        /\ \A i, j \in DOMAIN fetched.ids :
               fetched.ids[i] = fetched.ids[j] => i = j
        /\ Range(fetched.ids)
              = {r.id : r \in Range(answer.resources)}
                    \cup {e.in : e \in Range(answer.events)}
                    \cup {e.out : e \in Range(answer.events)}
        /\ \A i \in DOMAIN fetched.log :
               fetched.log[i][1] = "fetch"
                   => \E j \in DOMAIN fetched.log :
                          j > i /\ fetched.log[j][1] = "closure"

\* A query handed the closure an id that only the out endpoint of a
\* returned event names, and ids that several of the three lists name.
C27_Witness ==
    /\ fetched.returned
    /\ <<Vault>> \in Range(fetched.ids)
    /\ <<Vault>> \notin {r.id : r \in Range(answer.resources)}
                        \cup {e.in : e \in Range(answer.events)}
    /\ Len(fetched.ids)
          < Len(answer.resources) + 2 * Len(answer.events)

\* ---------------------------------------------------------------- errors

\* PublicError::new
PublicError_new(status_code, message) ==
    [status_code |-> status_code, message |-> message]

\* An anyhow::Error that holds a message or a store error: it is not a
\* PublicError.
anyhow(message, cause) ==
    [public |-> FALSE, status_code |-> 0, message |-> message,
     cause |-> cause]

\* anyhow!(PublicError::new(..)): an anyhow::Error that holds a
\* PublicError.
anyhow_public(public_error) ==
    [public |-> TRUE, status_code |-> public_error.status_code,
     message |-> public_error.message, cause |-> 0]

\* Variant: the message of the error is handed on to the client.
PublicError_from_leaking(err) ==
    IF err.public
    THEN PublicError_new(err.status_code, err.message)
    ELSE PublicError_new(500, err.message)

\* impl From<E> for PublicError: a PublicError is taken out of the error
\* as it is; any other error is logged and becomes 500 with the
\* canonical reason of that status.
PublicError_from(err) ==
    IF err.public
    THEN PublicError_new(err.status_code, err.message)
    ELSE PublicError_new(500, "Internal Server Error")

\* impl IntoResponse for PublicError: the status code and a JSON object
\* with the message.
into_response(public_error) ==
    [status_code |-> public_error.status_code,
     message |-> public_error.message]

\* The public errors the handlers raise with bad_request!, not_found!
\* and conflict!.
PublicErrors ==
    {PublicError_new(400, "Invalid route key ID"),
     PublicError_new(404, "Report key not found"),
     PublicError_new(404, "Account is not initialized yet"),
     PublicError_new(409, "Account already exists"),
     PublicError_new(409, "User already has an account")}

\* A handler fails with err and `?` converts it for the client.
Fail(err) ==
    /\ failure' = err
    /\ sent' = into_response(PublicError_from(failure'))

\* validate_value fails on the value presented.
FailValidation ==
    /\ \E text \in ForeignValues :
           \E endpoint \in Endpoints :
               /\ presented' = text
               /\ deployment' = endpoint
               /\ validated' = validate_value(presented', endpoint)
    /\ tamper' = [region |-> "foreign", at |-> 0]
    /\ validated'.tag = "Err"
    /\ Fail(anyhow(validated'.error, 0))
    /\ UNCHANGED <<minted, ingestVars, keyVars, tenancyVars, boundaryVars,
                   queryVars, cacheVars, accountVars>>

\* A statement of a report fails in the store.
FailStore ==
    /\ \E req \in QueryRequests :
           \E failAt \in 1..2 : report(req, failAt)
    /\ response'.tag = "Err"
    /\ Fail(anyhow(response'.error.tag, response'.error.cause))
    /\ UNCHANGED <<codecVars, keyVars, tenancyVars, boundaryVars, queryVars,
                   cacheVars, accountVars>>

\* A handler fails with a public error.
FailPublic ==
    /\ \E public_error \in PublicErrors : Fail(anyhow_public(public_error))
    /\ UNCHANGED <<ingestVars, codecVars, keyVars, tenancyVars, boundaryVars,
                   queryVars, cacheVars, accountVars>>

ErrorsNext == FailValidation \/ FailStore \/ FailPublic

\* Handlers failing, one after another, each error converted for the
\* client.
SpecErrors == Init /\ [][ErrorsNext]_vars

\* C23: an error that is not a public error is answered with status 500
\* and the fixed generic message, the same answer as the one given for
\* the failure before it when that was not public either; a public
\* error is answered with its own status code and message.
C23_OpaqueErrors ==
    [][/\ ~failure'.public =>
              /\ sent' = [status_code |-> 500,
                          message |-> "Internal Server Error"]
              /\ (failure # NoFailure /\ ~failure.public) => sent' = sent
       /\ failure'.public =>
              sent' = [status_code |-> failure'.status_code,
                       message |-> failure'.message]]_vars

\* Two failures with different causes, a store error and then a
\* rejection by validate_value, got the same answer.
C23_Witness ==
    /\ validated.tag = "Err"
    /\ failure = anyhow(validated.error, 0)
    /\ response.tag = "Err"
    /\ failure.message # response.error.tag
    /\ sent = [status_code |-> 500, message |-> "Internal Server Error"]

\* A public error kept its status code and its message.
C23_WitnessPublic ==
    /\ failure.public
    /\ sent = [status_code |-> 409, message |-> "Account already exists"]

\* ------------------------------------------------- the connection cache
\* db_for_customer_data_account step by step, the lock of the cache
\* included.  A step ends where the function awaits.

\* DBS_BY_AWS_ACCOUNT_ID.read().await returns: no caller holds the
\* write lock.
ReadLockFree(rwlock) == rwlock.writer = 0

\* DBS_BY_AWS_ACCOUNT_ID.write().await returns: no caller holds the
\* lock.
WriteLockFree(rwlock) == rwlock.writer = 0 /\ rwlock.readers = {}

\* The read lock is taken and the cache looked up.  On a hit the handle
\* is cloned and the guard lives on to the end of the function; on a
\* miss the guard is dropped.
LockRead(task_id) ==
    LET t == task[task_id]
    IN  /\ t.pc = "read"
        /\ t.entry = "db_for_customer_data_account"
        /\ ReadLockFree(lock)
        /\ IF t.location \in DOMAIN dbs_by_aws_account_id
           THEN /\ task' = [task EXCEPT ![task_id] =
                               [t EXCEPT !.pc = "use_ns",
                                    !.db = dbs_by_aws_account_id[t.location]]]
                /\ lock' = [lock EXCEPT !.readers = @ \cup {task_id}]
           ELSE /\ task' = [task EXCEPT ![task_id] = [t EXCEPT !.pc = "write"]]
                /\ UNCHANGED lock
        /\ UNCHANGED <<dbs_by_aws_account_id, established, session>>

\* Variant: under the write lock the cache is not looked up again.
LockWrite_without_recheck(task_id) ==
    LET t == task[task_id]
    IN  /\ t.pc = "write"
        /\ WriteLockFree(lock)
        /\ task' = [task EXCEPT ![task_id] = [t EXCEPT !.pc = "connect"]]
        /\ lock' = [lock EXCEPT !.writer = task_id]
        /\ UNCHANGED <<dbs_by_aws_account_id, established, session>>

\* The write lock is taken and the cache looked up again.  On a hit the
\* handle is cloned and the guard dropped; on a miss the caller goes on
\* to Surreal::new with the guard held.
LockWrite(task_id) ==
    LET t == task[task_id]
    IN  /\ t.pc = "write"
        /\ WriteLockFree(lock)
        /\ IF t.location \in DOMAIN dbs_by_aws_account_id
           THEN /\ task' = [task EXCEPT ![task_id] =
                               [t EXCEPT !.pc = "use_ns",
                                    !.db = dbs_by_aws_account_id[t.location]]]
                /\ UNCHANGED lock
           ELSE /\ task' = [task EXCEPT ![task_id] =
                               [t EXCEPT !.pc = "connect"]]
                /\ lock' = [lock EXCEPT !.writer = task_id]
        /\ UNCHANGED <<dbs_by_aws_account_id, established, session>>

\* Surreal::new(..).await returns.  Ok: the handle is inserted into the
\* cache and the guard dropped.  Err: `?` returns it and the guard is
\* dropped.
Connect(task_id, ok) ==
    LET t == task[task_id]
    IN  /\ t.pc = "connect"
        /\ lock' = [lock EXCEPT !.writer = 0]
        /\ IF ok
           THEN /\ dbs_by_aws_account_id' =
                       Put(dbs_by_aws_account_id, t.location, NewHandle)
                /\ established' =
                       Append(established,
                              [key |-> t.location, db |-> NewHandle])
                /\ task' = [task EXCEPT ![task_id] =
                               [t EXCEPT !.pc = "use_ns", !.db = NewHandle]]
           ELSE /\ task' = [task EXCEPT ![task_id] =
                               [t EXCEPT !.pc = "failed"]]
                /\ UNCHANGED <<dbs_by_aws_account_id, established>>
        /\ UNCHANGED session

\* db.use_ns(..).use_db("resources").await returns and so does the
\* function: a read guard still held is dropped.
SelectNamespace(task_id) ==
    LET t == task[task_id]
    IN  /\ t.pc = "use_ns"
        /\ session' = use_ns(session, task_id, t.db,
                             NamespaceFor(t.entry, t.account_id))
        /\ task' = [task EXCEPT ![task_id] = [t EXCEPT !.pc = "done"]]
        /\ lock' = [lock EXCEPT !.readers = @ \ {task_id}]
        /\ UNCHANGED <<dbs_by_aws_account_id, established>>

\* ------------------------------------ the connection cache: specification

nonCacheVars ==
    <<ingestVars, codecVars, keyVars, boundaryVars, queryVars, errorVars,
      accountVars, DB, executed>>

CacheArrive ==
    /\ \E task_id \in Tasks, location \in ServiceDataLocations :
           Arrive(task_id, "db_for_customer_data_account", location[1],
                  location[2])
    /\ UNCHANGED <<nonTenancyVars, cacheVars>>

CacheLockRead ==
    /\ \E task_id \in Tasks : LockRead(task_id)
    /\ UNCHANGED nonCacheVars

CacheLockWrite ==
    /\ \E task_id \in Tasks : LockWrite(task_id)
    /\ UNCHANGED nonCacheVars

CacheConnect ==
    /\ \E task_id \in Tasks, ok \in BOOLEAN : Connect(task_id, ok)
    /\ UNCHANGED nonCacheVars

CacheSelectNamespace ==
    /\ \E task_id \in Tasks : SelectNamespace(task_id)
    /\ UNCHANGED nonCacheVars

\* A caller whose call has returned calls again.
CacheReturn ==
    /\ \E task_id \in Tasks :
           /\ task[task_id].pc \in {"done", "failed"}
           /\ task' = [task EXCEPT ![task_id] = NoTask]
    /\ UNCHANGED <<dbs_by_aws_account_id, session, cacheVars, nonCacheVars>>

CacheNext ==
    \/ CacheArrive
    \/ CacheLockRead
    \/ CacheLockWrite
    \/ CacheConnect
    \/ CacheSelectNamespace
    \/ CacheReturn

\* Concurrent calls of db_for_customer_data_account.
SpecCache == Init /\ [][CacheNext]_vars

\* The callers that were handed a connection.
Served == {task_id \in Tasks : task[task_id].pc \in {"use_ns", "done"}}

\* C24: whatever the interleaving of concurrent calls, no two
\* connections are established and inserted for one cache key, every
\* caller is handed the connection the cache holds for its key, and an
\* entry of the cache is never replaced or removed.
C24_SingleEstablishment ==
    [][/\ \A i, j \in DOMAIN established' :
              established'[i].key = established'[j].key => i = j
       /\ \A task_id \in {c \in Tasks : task'[c].pc \in {"use_ns", "done"}} :
              /\ task'[task_id].location \in DOMAIN dbs_by_aws_account_id'
              /\ task'[task_id].db
                    = dbs_by_aws_account_id'[task'[task_id].location]
       /\ \A key \in DOMAIN dbs_by_aws_account_id :
              /\ key \in DOMAIN dbs_by_aws_account_id'
              /\ dbs_by_aws_account_id'[key] = dbs_by_aws_account_id[key]]_vars

\* Two callers that both missed the same key under the read lock were
\* handed the one connection that one of them established.
C24_Witness ==
    /\ Len(established) = 1
    /\ \E p, q \in Served :
           /\ p # q
           /\ task[p].location = task[q].location
           /\ task[p].db = established[1].db
           /\ task[q].db = established[1].db
    /\ lock = Unlocked

\* C25: while a caller establishes the connection of its key, a caller
\* about to look up another key, which the cache holds, is let through
\* by the lock of the cache.
C25_NoCrossTenantBlocking ==
    \A p, q \in Tasks :
        (/\ task[p].pc = "connect"
         /\ task[q].pc = "read"
         /\ task[q].location # task[p].location
         /\ task[q].location \in DOMAIN dbs_by_aws_account_id)
            => ReadLockFree(lock)

\* ------------------------------------------------------ statement order

\* What a statement of a compiled report is.
StatementKind(s) ==
    CASE s.kind \in {"begin", "commit"} -> s.kind
      [] IsResourceUpsert(s) -> "resource"
      [] IsAttributesMerge(s) -> "merge"
      [] IsContainsUpsert(s) -> "contains"
      [] IsEventUpsert(s) -> "event"

RECURSIVE NodeOrder(_)
\* The kinds of the statements of a tree, in the order claimed: the
\* node's resource upsert, its attribute merge if it has attributes to
\* merge, the statements of its children's trees, its containment edge.
NodeOrder(node) ==
    <<"resource">>
        \o (IF IsSome(node.attributes) /\ Unwrap(node.attributes) # {}
            THEN <<"merge">> ELSE <<>>)
        \o Flatten([i \in 1..Len(Children(node)) |->
                        NodeOrder(Children(node)[i])])
        \o <<"contains">>

\* C26: the statements compiled for a report start with BEGIN and end
\* with COMMIT; between them come the statements of the trees, each
\* node's resource upsert, then its attribute merge, then the
\* statements of its descendants, then its containment edge, so that
\* the resource a containment edge goes out to is upserted before the
\* edge; the event edges come after all of them.
C26_StatementOrder ==
    statements # <<>> =>
        LET kinds == [i \in DOMAIN statements |->
                         StatementKind(statements[i])]
            trees == Flatten([i \in 1..Len(request.resources) |->
                                 NodeOrder(request.resources[i])])
            n     == Len(statements)
        IN  /\ kinds[1] = "begin"
            /\ kinds[n] = "commit"
            /\ SubSeq(kinds, 2, Len(trees) + 1) = trees
            /\ \A i \in (Len(trees) + 2)..(n - 1) : kinds[i] = "event"
            /\ \A i \in 1..n :
                   kinds[i] = "contains" =>
                       \E j \in 1..(i - 1) :
                           /\ kinds[j] = "resource"
                           /\ statements[j].data.id = statements[i].data.out
            /\ \A i, j \in 1..n :
                   (kinds[i] = "event"
                        /\ kinds[j] \in {"resource", "merge", "contains"})
                       => j < i

\* A report of a host with attributes that contains a secret with
\* attributes, and of an event: nine statements in the order claimed.
C26_Witness ==
    /\ Len(request.resources) = 1
    /\ Len(request.event_reports) = 1
    /\ [i \in DOMAIN statements |-> StatementKind(statements[i])]
          = <<"begin", "resource", "merge", "resource", "merge",
              "contains", "contains", "event", "commit">>

\* ------------------------------------------------------ account id range

\* The ids Account::new draws, as the decimal text it stores: the
\* numbers 1000000000..=9999999999, ten digits of which the first is
\* not 0 (in local dev always "1000000001").
Account_new_ids(account_id) ==
    /\ Len(account_id) = 10
    /\ account_id[1] \in 49..57
    /\ \A i \in 2..10 : account_id[i] \in 48..57

\* C28: a value minted for an account id that Account::new can draw is
\* never refused because of its account id, and where the key id and
\* the endpoint are accepted it validates to that account id.
C28_GeneratedAccountIdsValidate ==
    (Untampered /\ Account_new_ids(minted.account_id)) =>
        /\ validated # ValidateErr("Account ID is not valid")
        /\ (deployment = minted.endpoint /\ minted.key_id \in 100000..999999)
               => /\ validated.tag = "Ok"
                  /\ validated.account_id = minted.account_id

\* ------------------------------------------------------ account creation
\* create_account step by step, one step per call it awaits.

\* Variant: the table is not migrated.
CreateAccountSteps_without_migrate ==
    <<"ensure_user_record_exists", "has_user_account",
      "select_customer_data_aws_account", "create_table", "describe_table",
      "put_resource_policy", "update_continuous_backups", "commit">>

\* The calls create_account awaits, in order, those of
\* create_account_service_data_table included.
CreateAccountSteps ==
    <<"ensure_user_record_exists", "has_user_account",
      "select_customer_data_aws_account", "create_table", "describe_table",
      "put_resource_policy", "update_continuous_backups", "migrate",
      "commit">>

\* The step that follows a step; "done" after the last.
StepAfter(step) ==
    LET i == CHOOSE j \in DOMAIN CreateAccountSteps :
                 CreateAccountSteps[j] = step
    IN  IF i = Len(CreateAccountSteps)
        THEN "done"
        ELSE CreateAccountSteps[i + 1]

\* The request goes on to its next step.
Proceed(r) ==
    creating' = [creating EXCEPT ![r].pc = StepAfter(creating[r].pc)]

\* The request returns an error: `?` on a failed call, or a public
\* error.
Return(r, outcome) ==
    creating' = [creating EXCEPT ![r].pc = "failed", ![r].outcome = outcome]

InternalServerError == "500 Internal Server Error: Internal Server Error"

\* SELECT COUNT(->has_access->account) > 0 AS has_user_account FROM $user
has_user_account(store, user) ==
    \E edge \in store.has_access : edge[1] = user

\* BEGIN; CREATE $account ..; RELATE $user->has_access->$account; COMMIT.
\* CREATE fails on an account that has a record, and with it the
\* transaction.
create_account_transaction(store, account_id, user) ==
    IF account_id \in store.account
    THEN store
    ELSE [store EXCEPT !.account = @ \cup {account_id},
                       !.has_access = @ \cup {<<user, account_id>>}]

\* A table as CreateTable leaves it.
NewTable == [status |-> "CREATING", pitr |-> "none", migrated |-> FALSE]

\* accounts_db() and principal.ensure_user_record_exists()
EnsureUserRecordExists(r, user, ok) ==
    /\ creating[r].pc = "idle"
    /\ IF ok
       THEN /\ account_store' = [account_store EXCEPT !.user = @ \cup {user}]
            /\ creating' = [creating EXCEPT
                               ![r].pc = StepAfter("ensure_user_record_exists"),
                               ![r].user = user]
       ELSE /\ creating' = [creating EXCEPT
                               ![r].pc = "failed", ![r].user = user,
                               ![r].outcome = InternalServerError]
            /\ UNCHANGED account_store
    /\ UNCHANGED <<tables, dbs_by_aws_account_id, session>>

\* if principal.has_user_account().await? { conflict!(..) }
HasUserAccount(r, ok) ==
    /\ creating[r].pc = "has_user_account"
    /\ IF ~ok
       THEN Return(r, InternalServerError)
       ELSE IF has_user_account(account_store, creating[r].user)
       THEN Return(r, "409 Conflict: User already has an account")
       ELSE Proceed(r)
    /\ UNCHANGED <<account_store, tables, dbs_by_aws_account_id, session>>

\* select_customer_data_aws_account(..) and Account::new(..)
SelectCustomerDataAwsAccount(r, account_id, ok) ==
    /\ creating[r].pc = "select_customer_data_aws_account"
    /\ IF ok
       THEN creating' = [creating EXCEPT
                            ![r].pc = StepAfter(creating[r].pc),
                            ![r].account_id = account_id]
       ELSE Return(r, InternalServerError)
    /\ UNCHANGED <<account_store, tables, dbs_by_aws_account_id, session>>

\* client.create_table()..send(): ResourceInUseException for a table
\* that exists.
CreateTable(r, ok) ==
    /\ creating[r].pc = "create_table"
    /\ IF creating[r].account_id \in DOMAIN tables
       THEN Return(r, "409 Conflict: Account already exists") /\ UNCHANGED tables
       ELSE IF ok
       THEN Proceed(r) /\ tables' = Put(tables, creating[r].account_id, NewTable)
       ELSE Return(r, InternalServerError) /\ UNCHANGED tables
    /\ UNCHANGED <<account_store, dbs_by_aws_account_id, session>>

\* The loop over describe_table: it ends when the table is seen Active,
\* when a call fails and when 30 seconds have passed.
DescribeTable(r, ok) ==
    /\ creating[r].pc = "describe_table"
    /\ IF ok
       THEN /\ tables[creating[r].account_id].status = "ACTIVE"
            /\ Proceed(r)
       ELSE Return(r, InternalServerError)
    /\ UNCHANGED <<account_store, tables, dbs_by_aws_account_id, session>>

\* DynamoDB finishes creating a table.
TableActive(account_id) ==
    /\ account_id \in DOMAIN tables
    /\ tables[account_id].status = "CREATING"
    /\ tables' = [tables EXCEPT ![account_id].status = "ACTIVE"]
    /\ UNCHANGED <<account_store, creating, dbs_by_aws_account_id, session>>

\* client.put_resource_policy()..send()
PutResourcePolicy(r, ok) ==
    /\ creating[r].pc = "put_resource_policy"
    /\ IF ok THEN Proceed(r) ELSE Return(r, InternalServerError)
    /\ UNCHANGED <<account_store, tables, dbs_by_aws_account_id, session>>

\* The loop over update_continuous_backups: it ends with Ok, with
\* UnknownOperationException (DynamoDB Local, ignored), with another
\* error and when 30 seconds have passed.
UpdateContinuousBackups(r, result) ==
    /\ creating[r].pc = "update_continuous_backups"
    /\ CASE result = "Ok" ->
                /\ Proceed(r)
                /\ tables' = [tables EXCEPT
                                 ![creating[r].account_id].pitr = "enabled"]
         [] result = "UnknownOperationException" ->
                /\ Proceed(r)
                /\ tables' = [tables EXCEPT
                                 ![creating[r].account_id].pitr = "unsupported"]
         [] OTHER ->
                /\ Return(r, InternalServerError)
                /\ UNCHANGED tables
    /\ UNCHANGED <<account_store, dbs_by_aws_account_id, session>>

\* The AWS account the tables of new accounts are created in.
SelectedLocation == "111111111111"

\* db_for_customer_data_account(..) and
\* migrator::migrate_account_resources_database(&db)
Migrate(r, result) ==
    LET account_id == creating[r].account_id
        cached == IF SelectedLocation \in DOMAIN dbs_by_aws_account_id
                  THEN dbs_by_aws_account_id
                  ELSE Put(dbs_by_aws_account_id, SelectedLocation, NewHandle)
    IN  /\ creating[r].pc = "migrate"
        /\ IF result = "connect failed"
           THEN /\ Return(r, InternalServerError)
                /\ UNCHANGED <<tables, dbs_by_aws_account_id, session>>
           ELSE /\ dbs_by_aws_account_id' = cached
                /\ session' = use_ns(session, r, cached[SelectedLocation],
                                     NamespaceFor("db_for_customer_data_account",
                                                  account_id))
                /\ IF result = "Ok"
                   THEN /\ Proceed(r)
                        /\ tables' = [tables EXCEPT
                                         ![account_id].migrated = TRUE]
                   ELSE /\ Return(r, InternalServerError)
                        /\ UNCHANGED tables
        /\ UNCHANGED account_store

\* accounts_db.query(BEGIN).create_account_query(..)
\*     .add_account_access_for_user(..).query(COMMIT)
\*     .await?.check_first_real_error()?
CommitAccount(r, ok) ==
    LET written == create_account_transaction(account_store,
                                              creating[r].account_id,
                                              creating[r].user)
    IN  /\ creating[r].pc = "commit"
        /\ IF ok /\ written # account_store
           THEN /\ account_store' = written
                /\ creating' = [creating EXCEPT ![r].pc = StepAfter("commit"),
                                                ![r].outcome = "200 OK"]
           ELSE /\ Return(r, InternalServerError)
                /\ UNCHANGED account_store
        /\ UNCHANGED <<tables, dbs_by_aws_account_id, session>>

\* ----------------------------------------- account creation: specification

\* The ids Account::new draws in the specification.
NewAccountIds == {"1000000001", "9999999999"}

nonAccountVars ==
    <<ingestVars, codecVars, keyVars, boundaryVars, queryVars, errorVars,
      cacheVars, DB, task, executed>>

AccountsEnsureUser ==
    /\ \E r \in CreateRequests, user \in Users, ok \in BOOLEAN :
           EnsureUserRecordExists(r, user, ok)
    /\ UNCHANGED nonAccountVars

AccountsHasUserAccount ==
    /\ \E r \in CreateRequests, ok \in BOOLEAN : HasUserAccount(r, ok)
    /\ UNCHANGED nonAccountVars

AccountsSelect ==
    /\ \E r \in CreateRequests, account_id \in NewAccountIds, ok \in BOOLEAN :
           SelectCustomerDataAwsAccount(r, account_id, ok)
    /\ UNCHANGED nonAccountVars

AccountsCreateTable ==
    /\ \E r \in CreateRequests, ok \in BOOLEAN : CreateTable(r, ok)
    /\ UNCHANGED nonAccountVars

AccountsDescribeTable ==
    /\ \E r \in CreateRequests, ok \in BOOLEAN : DescribeTable(r, ok)
    /\ UNCHANGED nonAccountVars

AccountsTableActive ==
    /\ \E account_id \in NewAccountIds : TableActive(account_id)
    /\ UNCHANGED nonAccountVars

AccountsPutResourcePolicy ==
    /\ \E r \in CreateRequests, ok \in BOOLEAN : PutResourcePolicy(r, ok)
    /\ UNCHANGED nonAccountVars

AccountsUpdateContinuousBackups ==
    /\ \E r \in CreateRequests,
          result \in {"Ok", "UnknownOperationException", "Error"} :
           UpdateContinuousBackups(r, result)
    /\ UNCHANGED nonAccountVars

AccountsMigrate ==
    /\ \E r \in CreateRequests,
          result \in {"Ok", "connect failed", "migrate failed"} :
           Migrate(r, result)
    /\ UNCHANGED nonAccountVars

AccountsCommit ==
    /\ \E r \in CreateRequests, ok \in BOOLEAN : CommitAccount(r, ok)
    /\ UNCHANGED nonAccountVars

AccountsNext ==
    \/ AccountsEnsureUser
    \/ AccountsHasUserAccount
    \/ AccountsSelect
    \/ AccountsCreateTable
    \/ AccountsDescribeTable
    \/ AccountsTableActive
    \/ AccountsPutResourcePolicy
    \/ AccountsUpdateContinuousBackups
    \/ AccountsMigrate
    \/ AccountsCommit

\* Concurrent create_account requests.
SpecAccounts == Init /\ [][AccountsNext]_vars

\* The table of an account is ready: Active, point-in-time recovery
\* enabled or unsupported, migrated.
TableReady(account_id) ==
    /\ account_id \in DOMAIN tables
    /\ tables[account_id].status = "ACTIVE"
    /\ tables[account_id].pitr \in {"enabled", "unsupported"}
    /\ tables[account_id].migrated

UserHasAccountConflict == "409 Conflict: User already has an account"

\* C29: an account record and a has_access relation are written only
\* together, by the commit of a request whose account's table is
\* ready; a request refused because its user has an account has
\* created no table; a request that fails writes no account record.
C29_AccountAfterTable ==
    [][/\ (\/ account_store'.account # account_store.account
           \/ account_store'.has_access # account_store.has_access) =>
              \E r \in CreateRequests :
                  /\ creating[r].pc = "commit"
                  /\ creating'[r].pc = "done"
                  /\ creating[r].account_id \notin account_store.account
                  /\ account_store'.account
                        = account_store.account \cup {creating[r].account_id}
                  /\ account_store'.has_access
                        = account_store.has_access
                              \cup {<<creating[r].user, creating[r].account_id>>}
                  /\ TableReady(creating[r].account_id)
       /\ \A r \in CreateRequests :
              (/\ creating'[r].outcome = UserHasAccountConflict
               /\ creating[r].outcome # UserHasAccountConflict) =>
                  /\ creating'[r].account_id = ""
                  /\ tables' = tables
       /\ \A r \in CreateRequests :
              (creating'[r].pc = "failed" /\ creating[r].pc # "failed") =>
                  /\ account_store'.account = account_store.account
                  /\ account_store'.has_access = account_store.has_access]_vars

\* An account written after its table went through every step, a later
\* request of its user refused with no table of its own, and a request
\* of another user failed with a table created and no account record.
C29_Witness ==
    \E r, q \in CreateRequests :
        /\ creating[r].pc = "done"
        /\ TableReady(creating[r].account_id)
        /\ creating[r].account_id \in account_store.account
        /\ creating[q].pc = "failed"
        /\ creating[q].user # creating[r].user
        /\ creating[q].account_id \in DOMAIN tables
        /\ creating[q].account_id \notin account_store.account

\* A request refused because its user has an account already.
C29_WitnessConflict ==
    \E r \in CreateRequests :
        /\ creating[r].outcome = UserHasAccountConflict
        /\ DOMAIN tables = account_store.account
        /\ Cardinality(account_store.account) = 1

\* C30: whatever the interleaving of concurrent create_account requests
\* of one user, the user has access to at most one account.
C30_AtMostOneAccountPerUser ==
    \A user \in Users :
        Cardinality({edge \in account_store.has_access : edge[1] = user}) <= 1

====
